---- MODULE Spec2Model ----
(***************************************************************************)
(* A model of the native execution core of blaze:                          *)
(*   - the cached filter/projection evaluator                              *)
(*       (datafusion-ext-plans/src/common/cached_exprs_evaluator.rs),      *)
(*   - the columnar batch codec                                            *)
(*       (datafusion-ext-commons/src/io/batch_serde.rs),                   *)
(*   - the partition hash (datafusion-ext-commons/src/spark_hash.rs).      *)
(*   - the plan and expression materializer                                *)
(*       (blaze-serde/src/from_proto.rs),                                  *)
(*   - the evaluation of an external function over row ranges              *)
(*       (datafusion-ext-exprs/src/spark_udf_wrapper.rs).                  *)
(* Spec is the evaluator, SpecCodec the codec, SpecHash the hash,          *)
(* SpecPlan the materializer, SpecUdf the external function, SpecConc the  *)
(* evaluator called by two callers at once.                                *)
(***************************************************************************)
EXTENDS Integers, Sequences, FiniteSets, TLC

VARIABLES
    ev,       \* the CachedExprsEvaluator built by try_new
    cache,    \* Cache.values: one slot per cached expression id
    evals,    \* per cache id: evaluations of the underlying expression in this call
    call,     \* the top-level call in progress, or its result when idle
    codec,    \* the codec run: batch, flag, bytes written, batch read
    hash,     \* the hash run: columns, seed buffer, position
    plan,     \* the plan materializer run: the serialized node and its result
    udf,      \* the SparkUDFWrapperExpr evaluation: ranges, workers, result
    conc      \* two callers of one evaluator: their calls, who filled each slot

vars == <<ev, cache, evals, call, codec, hash, plan, udf, conc>>

(***************************************************************************)
(* Bounds of the model.                                                    *)
(***************************************************************************)
MaxRows == 2
\* rows of the batch an external function is evaluated on, and worker threads
MaxUdfRows == 5
MaxThreads == 3

(***************************************************************************)
(* Generic helpers.                                                        *)
(***************************************************************************)
Range(s) == {s[i] : i \in DOMAIN s}

RECURSIVE SeqsUpTo(_, _)
SeqsUpTo(S, n) ==
    IF n = 0 THEN {<<>>}
    ELSE LET P == SeqsUpTo(S, n - 1)
         IN  P \cup {Append(p, x) : p \in {q \in P : Len(q) = n - 1}, x \in S}

RECURSIVE Concat(_)
Concat(ss) == IF ss = <<>> THEN <<>> ELSE Head(ss) \o Concat(Tail(ss))

RECURSIVE CountIn(_, _)
CountIn(x, s) ==
    IF s = <<>> THEN 0
    ELSE (IF Head(s) = x THEN 1 ELSE 0) + CountIn(x, Tail(s))

(***************************************************************************)
(* Three-valued boolean values of a column: true, false, null.             *)
(***************************************************************************)
Values == {"t", "f", "n"}

(***************************************************************************)
(* Physical expressions.  A node is a tuple whose head is its kind.        *)
(***************************************************************************)
Col(i)     == <<"col", i>>
Lit(v)     == <<"lit", v>>
NoOp       == <<"noop">>
Not(e)     == <<"not", e>>
IsNull(e)  == <<"isnull", e>>
And(a, b)  == <<"and", a, b>>
SCAnd(a, b) == <<"scand", a, b>>
SCOr(a, b) == <<"scor", a, b>>
Case(base, w, t, el) == <<"case", base, w, t, el>>
Udf(e)     == <<"udf", e>>
\* an external call of two arguments; sig is <<serialized, return_type,
\* return_nullable>>
Udf2(sig, a, b) == <<"udf2", sig, a, b>>
CachedExpr(id, orig) == <<"cached", id, orig>>

Kind(e) == e[1]

\* "ignore trivial leaf exprs"
IsTrivialLeaf(e) == Kind(e) \in {"noop", "col", "lit"}

\* "exprs with short circuiting evaluation"
IsShortCircuit(e) == Kind(e) \in {"case", "scand", "scor"}

RECURSIVE Children(_)
Children(e) ==
    CASE Kind(e) \in {"col", "lit", "noop"} -> <<>>
      [] Kind(e) \in {"not", "isnull", "udf"} -> <<e[2]>>
      [] Kind(e) \in {"and", "scand", "scor"} -> <<e[2], e[3]>>
      [] Kind(e) = "udf2" -> <<e[3], e[4]>>
      [] Kind(e) = "case" -> <<e[2], e[3], e[4], e[5]>>
      [] Kind(e) = "cached" -> Children(e[3])

RECURSIVE WithNewChildren(_, _)
WithNewChildren(e, ch) ==
    CASE Kind(e) \in {"col", "lit", "noop"} -> e
      [] Kind(e) \in {"not", "isnull", "udf"} -> <<Kind(e), ch[1]>>
      [] Kind(e) \in {"and", "scand", "scor"} -> <<Kind(e), ch[1], ch[2]>>
      [] Kind(e) = "udf2" -> <<"udf2", e[2], ch[1], ch[2]>>
      [] Kind(e) = "case" -> <<"case", ch[1], ch[2], ch[3], ch[4]>>
      [] Kind(e) = "cached" -> CachedExpr(e[2], WithNewChildren(e[3], ch))

(***************************************************************************)
(* transform_to_cached_exprs: count, collect_dups, ids, transform.         *)
(***************************************************************************)
\* every node of a tree, the node itself first: the traversal of count()
RECURSIVE Nodes(_)
Nodes(e) ==
    <<e>> \o Concat([i \in DOMAIN Children(e) |-> Nodes(Children(e)[i])])

\* ExprKey: what is one key of a HashMap<ExprKey, _>.  ExprKey::eq is the
\* expression's own PartialEq<dyn Any>, and two keys that are equal hash
\* alike.  Every node compares its children position by position, except
\* that SparkUDFWrapperExpr compares its params with expr_list_eq_any_order
\* (as bags) next to serialized, return_type and return_nullable, and that
\* CachedExpr compares the id alone.  KeyOf(e) is the same value for exactly
\* the expressions that are equal in this sense; it is e itself for an
\* expression without a two-argument external call.
RECURSIVE KeyOf(_)
KeyOf(e) ==
    CASE Kind(e) = "udf2" -> <<"udf2", e[2], {KeyOf(e[3]), KeyOf(e[4])}>>
      [] Kind(e) = "cached" -> <<"cached", e[2]>>
      [] Kind(e) \in {"col", "lit", "noop"} -> e
      [] OTHER ->
            <<Kind(e)>> \o [i \in DOMAIN Children(e) |-> KeyOf(Children(e)[i])]

\* expr_counts: occurrences of each structural identity over the forest
ExprCounts(exprs) ==
    LET all == Concat([i \in DOMAIN exprs |-> Nodes(exprs[i])])
        keys == [i \in DOMAIN all |-> KeyOf(all[i])]
    IN  [k \in Range(keys) |-> CountIn(k, keys)]

CountOf(counts, e) ==
    IF KeyOf(e) \in DOMAIN counts THEN counts[KeyOf(e)] ELSE 0

\* the children collect_dups and transform descend into
RECURSIVE CollectDupsAllChildren(_, _, _)
CollectDupsAllChildren(e, parent_count, counts) ==
    IF IsTrivialLeaf(e) THEN {}
    ELSE LET current_count == CountOf(counts, e)
             ch == Children(e)
         IN  (IF current_count > parent_count THEN {KeyOf(e)} ELSE {})
             \cup UNION {CollectDupsAllChildren(ch[i], current_count, counts)
                           : i \in DOMAIN ch}

RECURSIVE CollectDupsNoLeafCheck(_, _, _)
CollectDupsNoLeafCheck(e, parent_count, counts) ==
    LET current_count == CountOf(counts, e)
        ch == Children(e)
    IN  (IF current_count > parent_count THEN {KeyOf(e)} ELSE {})
        \cup (IF IsShortCircuit(e)
              THEN CollectDupsNoLeafCheck(ch[1], current_count, counts)
              ELSE UNION {CollectDupsNoLeafCheck(ch[i], current_count, counts)
                            : i \in DOMAIN ch})

RECURSIVE CollectDups(_, _, _)
CollectDups(e, parent_count, counts) ==
    IF IsTrivialLeaf(e) THEN {}
    ELSE LET current_count == CountOf(counts, e)
             ch == Children(e)
         IN  (IF current_count > parent_count THEN {KeyOf(e)} ELSE {})
             \cup (IF IsShortCircuit(e)
                   THEN CollectDups(ch[1], current_count, counts)
                   ELSE UNION {CollectDups(ch[i], current_count, counts)
                                 : i \in DOMAIN ch})

Dups(exprs) ==
    UNION {CollectDups(exprs[i], 1, ExprCounts(exprs)) : i \in DOMAIN exprs}

\* cached_expr_ids: dups.into_iter().enumerate() - the HashSet's iteration
\* order is arbitrary, so any numbering 0..n-1 of the duplicates can result
IdAssignments(dups) ==
    {f \in [dups -> 0 .. Cardinality(dups) - 1] :
        \A a, b \in dups : a # b => f[a] # f[b]}

RECURSIVE TransformAllChildren(_, _)
TransformAllChildren(e, ids) ==
    IF IsTrivialLeaf(e) THEN e
    ELSE LET ch == Children(e)
             transformed_expr ==
                 WithNewChildren(e,
                     [i \in DOMAIN ch |-> TransformAllChildren(ch[i], ids)])
         IN  IF KeyOf(e) \in DOMAIN ids
             THEN CachedExpr(ids[KeyOf(e)], transformed_expr)
             ELSE transformed_expr

RECURSIVE Transform(_, _)
Transform(e, ids) ==
    IF IsTrivialLeaf(e) THEN e
    ELSE LET ch == Children(e)
             transformed_expr ==
                 IF IsShortCircuit(e)
                 THEN WithNewChildren(e,
                          [i \in DOMAIN ch |->
                              IF i = 1 THEN Transform(ch[1], ids) ELSE ch[i]])
                 ELSE WithNewChildren(e,
                          [i \in DOMAIN ch |-> Transform(ch[i], ids)])
         IN  IF KeyOf(e) \in DOMAIN ids
             THEN CachedExpr(ids[KeyOf(e)], transformed_expr)
             ELSE transformed_expr

(***************************************************************************)
(* prune_expr_cols: the columns an expression reads, renumbered 0..k-1 in  *)
(* the order the bottom-up rewrite meets them; used[i] is the original     *)
(* index of pruned column i-1.                                             *)
(***************************************************************************)
IndexOf(s, x) == CHOOSE i \in DOMAIN s : s[i] = x

RECURSIVE PruneWalk(_, _)
RECURSIVE PruneChildren(_, _, _, _)
PruneChildren(ch, i, used, acc) ==
    IF i > Len(ch) THEN [ch |-> acc, used |-> used]
    ELSE LET r == PruneWalk(ch[i], used)
         IN  PruneChildren(ch, i + 1, r.used, Append(acc, r.e))

PruneWalk(e, used) ==
    IF Kind(e) = "col"
    THEN IF e[2] \in Range(used)
         THEN [e |-> Col(IndexOf(used, e[2]) - 1), used |-> used]
         ELSE [e |-> Col(Len(used)), used |-> Append(used, e[2])]
    ELSE LET r == PruneChildren(Children(e), 1, used, <<>>)
         IN  [e |-> WithNewChildren(e, r.ch), used |-> r.used]

PruneNoRemap(e) == [expr |-> e, proj |-> PruneWalk(e, <<>>).used]

PruneExprCols(e) ==
    LET r == PruneWalk(e, <<>>) IN [expr |-> r.e, proj |-> r.used]

(***************************************************************************)
(* Columnar values and batches.  A ColumnarValue is <<"S", v>> (Scalar) or *)
(* <<"A", array>> (Array); <<"E">> stands for an Err result and <<"none">> *)
(* for an empty cache slot.  A batch is a schema (field names), columns    *)
(* and a row count.                                                        *)
(***************************************************************************)
Scalar(v) == <<"S", v>>
Array(a)  == <<"A", a>>
Err       == <<"E">>
None      == <<"none">>

IsErr(x) == x[1] = "E"

\* Result<RecordBatch>: Ok(batch) or Err
OkRes(b) == [tag |-> "ok", batch |-> b]
ErrRes   == [tag |-> "err", batch |-> [schema |-> <<>>, cols |-> <<>>, n |-> 0]]
NoRes    == [tag |-> "none", batch |-> [schema |-> <<>>, cols |-> <<>>, n |-> 0]]

\* ColumnarValue::into_array(num_rows)
IntoArray(cv, n) == IF cv[1] = "S" THEN [i \in 1 .. n |-> cv[2]] ELSE cv[2]

Batch(schema, cols, n) == [schema |-> schema, cols |-> cols, n |-> n]

\* RecordBatch::new_empty(schema)
NewEmpty(schema) == Batch(schema, [i \in DOMAIN schema |-> <<>>], 0)

CountTrue(mask) == Cardinality({i \in DOMAIN mask : mask[i] = "t"})

\* arrow::compute::filter: the elements whose mask bit is true, in order; a
\* null mask bit counts as false
RECURSIVE FilterFrom(_, _, _)
FilterFrom(a, mask, i) ==
    IF i > Len(mask) THEN <<>>
    ELSE (IF mask[i] = "t" THEN <<a[i]>> ELSE <<>>) \o FilterFrom(a, mask, i + 1)

FilterArray(a, mask) ==
    IF Len(mask) > Len(a) THEN Err ELSE Array(FilterFrom(a, mask, 1))

\* arrow::compute::filter_record_batch
FilterRecordBatch(b, mask) ==
    Batch(b.schema,
          [c \in DOMAIN b.cols |-> FilterFrom(b.cols[c], mask, 1)],
          CountTrue(mask))

\* RecordBatch::project: the columns at the given (0-based) indices
ProjectBatch(b, proj) ==
    Batch([i \in DOMAIN proj |-> b.schema[proj[i] + 1]],
          [i \in DOMAIN proj |-> b.cols[proj[i] + 1]],
          b.n)

\* datafusion::physical_expr::scatter: the next value of truthy where the
\* mask is true, null elsewhere
RECURSIVE ScatterFrom(_, _, _, _)
ScatterFrom(mask, truthy, i, pos) ==
    IF i > Len(mask) THEN <<>>
    ELSE IF mask[i] = "t"
         THEN <<truthy[pos]>> \o ScatterFrom(mask, truthy, i + 1, pos + 1)
         ELSE <<"n">> \o ScatterFrom(mask, truthy, i + 1, pos)

Scatter(mask, truthy) ==
    IF CountTrue(mask) > Len(truthy) THEN Err
    ELSE Array(ScatterFrom(mask, truthy, 1, 1))

\* arrow::compute::prep_null_mask_filter: a null becomes false
PrepNullMaskFilter(mask) ==
    [i \in DOMAIN mask |-> IF mask[i] = "t" THEN "t" ELSE "f"]

(***************************************************************************)
(* Row-level meaning of the operators (SQL three-valued logic).            *)
(***************************************************************************)
NotV(v) == CASE v = "t" -> "f" [] v = "f" -> "t" [] OTHER -> "n"

IsNullV(v) == IF v = "n" THEN "t" ELSE "f"

AndV(a, b) ==
    IF a = "f" \/ b = "f" THEN "f"
    ELSE IF a = "t" /\ b = "t" THEN "t" ELSE "n"

OrV(a, b) ==
    IF a = "t" \/ b = "t" THEN "t"
    ELSE IF a = "f" /\ b = "f" THEN "f" ELSE "n"

\* the external function called by an ExternalCall node: opaque, total
UdfV(v) == CASE v = "t" -> "n" [] v = "f" -> "t" [] OTHER -> "f"

\* the signatures of the external functions of two arguments
SigCoalesce == <<"coalesce", "boolean", TRUE>>
SigAndNot == <<"and_not", "boolean", TRUE>>

\* the external function of a signature on the arguments in their positions
UdfV2(sig, x, y) ==
    IF sig = SigCoalesce THEN (IF x = "n" THEN y ELSE x)
    ELSE AndV(x, NotV(y))

(***************************************************************************)
(* PhysicalExpr::evaluate and evaluate_selection, threading the cache      *)
(* m = [values, evals] through the evaluation in the order the code        *)
(* evaluates.  fail says whether the external function fails in this call. *)
(***************************************************************************)
Ok(cv, m) == [r |-> cv, m |-> m]

\* Cache::get with the store dropped: the value is computed and returned but
\* never kept
CacheGetNoStore(id, m, computed) ==
    Ok(computed.r, [values |-> computed.m.values,
                    evals  |-> [computed.m.evals EXCEPT ![id + 1] = @ + 1]])

\* Cache::get, the vacant case: evaluate_on_vacant has run once more for id;
\* its value, unless an error, is stored under id
CacheStore(id, m, computed) ==
    LET counted == [computed.m.evals EXCEPT ![id + 1] = @ + 1]
    IN  IF IsErr(computed.r)
        THEN Ok(computed.r, [values |-> computed.m.values, evals |-> counted])
        ELSE Ok(computed.r,
                [values |-> [computed.m.values EXCEPT ![id + 1] = computed.r],
                 evals  |-> counted])

RECURSIVE Evaluate(_, _, _, _)
RECURSIVE EvaluateSelection(_, _, _, _, _)

EvaluateSelection(e, b, selection, m, fail) ==
    LET tmp_batch == FilterRecordBatch(b, selection)
        tmp_result == Evaluate(e, tmp_batch, m, fail)
    IN  IF IsErr(tmp_result.r) THEN tmp_result
        ELSE IF b.n = tmp_batch.n THEN tmp_result
        ELSE IF tmp_result.r[1] = "A"
             THEN Ok(Scatter(selection, tmp_result.r[2]), tmp_result.m)
             ELSE tmp_result

Evaluate(e, b, m, fail) ==
    CASE Kind(e) = "col" ->
            IF e[2] + 1 \in DOMAIN b.cols
            THEN Ok(Array(b.cols[e[2] + 1]), m) ELSE Ok(Err, m)
      [] Kind(e) = "lit" -> Ok(Scalar(e[2]), m)
      [] Kind(e) = "noop" -> Ok(Err, m)
      [] Kind(e) \in {"not", "isnull"} ->
            LET x == Evaluate(e[2], b, m, fail)
                F(v) == IF Kind(e) = "not" THEN NotV(v) ELSE IsNullV(v)
            IN  IF IsErr(x.r) THEN x
                ELSE IF x.r[1] = "S" THEN Ok(Scalar(F(x.r[2])), x.m)
                ELSE Ok(Array([i \in DOMAIN x.r[2] |-> F(x.r[2][i])]), x.m)
      [] Kind(e) = "udf" ->
            LET x == Evaluate(e[2], b, m, fail)
                xa == IntoArray(x.r, b.n)
            IN  IF IsErr(x.r) THEN x
                ELSE IF fail THEN Ok(Err, x.m)
                ELSE Ok(Array([i \in DOMAIN xa |-> UdfV(xa[i])]), x.m)
      [] Kind(e) = "udf2" ->
            \* params.iter().map(|param| param.evaluate(batch)), then the call
            LET x == Evaluate(e[3], b, m, fail)
                y == Evaluate(e[4], b, x.m, fail)
                xa == IntoArray(x.r, b.n)
                ya == IntoArray(y.r, b.n)
            IN  IF IsErr(x.r) THEN x
                ELSE IF IsErr(y.r) THEN y
                ELSE IF Len(xa) # b.n \/ Len(ya) # b.n THEN Ok(Err, y.m)
                ELSE IF fail THEN Ok(Err, y.m)
                ELSE Ok(Array([i \in 1 .. b.n |-> UdfV2(e[2], xa[i], ya[i])]),
                        y.m)
      [] Kind(e) = "and" ->
            LET l == Evaluate(e[2], b, m, fail)
                r == Evaluate(e[3], b, l.m, fail)
                la == IntoArray(l.r, b.n)
                ra == IntoArray(r.r, b.n)
            IN  IF IsErr(l.r) THEN l
                ELSE IF IsErr(r.r) THEN r
                ELSE IF Len(la) # Len(ra) THEN Ok(Err, r.m)
                ELSE Ok(Array([i \in DOMAIN la |-> AndV(la[i], ra[i])]), r.m)
      [] Kind(e) \in {"scand", "scor"} ->
            LET l == Evaluate(e[2], b, m, fail)
                la == IntoArray(l.r, b.n)
                stop == IF Kind(e) = "scand" THEN "f" ELSE "t"
                sel == [i \in DOMAIN la |-> IF la[i] = stop THEN "f" ELSE "t"]
                r == EvaluateSelection(e[3], b, sel, l.m, fail)
                ra == IntoArray(r.r, b.n)
                F(x, y) == IF Kind(e) = "scand" THEN AndV(x, y) ELSE OrV(x, y)
            IN  IF IsErr(l.r) THEN l
                ELSE IF Len(la) # b.n THEN Ok(Err, l.m)
                ELSE IF CountTrue(sel) = 0 THEN Ok(Array(la), l.m)
                ELSE IF IsErr(r.r) THEN r
                ELSE IF Len(ra) # b.n THEN Ok(Err, r.m)
                ELSE Ok(Array([i \in DOMAIN la |-> F(la[i], ra[i])]), r.m)
      [] Kind(e) = "case" ->
            LET hasBase == e[2] # NoOp
                base == IF hasBase THEN Evaluate(e[2], b, m, fail)
                        ELSE Ok(Scalar("t"), m)
                ba == IntoArray(base.r, b.n)
                all == [i \in 1 .. b.n |-> "t"]
                w == EvaluateSelection(e[3], b, all, base.m, fail)
                wa == IntoArray(w.r, b.n)
                match == [i \in 1 .. b.n |->
                            IF wa[i] # "n" /\ ba[i] # "n" /\ wa[i] = ba[i]
                            THEN "t" ELSE "f"]
                rest == [i \in 1 .. b.n |-> NotV(match[i])]
                t == EvaluateSelection(e[4], b, match, w.m, fail)
                ta == IntoArray(t.r, b.n)
                el == IF e[5] = NoOp THEN Ok(Scalar("n"), t.m)
                      ELSE EvaluateSelection(e[5], b, rest, t.m, fail)
                ea == IntoArray(el.r, b.n)
            IN  IF IsErr(base.r) THEN base
                ELSE IF Len(ba) # b.n THEN Ok(Err, base.m)
                ELSE IF IsErr(w.r) THEN w
                ELSE IF Len(wa) # b.n THEN Ok(Err, w.m)
                ELSE IF IsErr(t.r) THEN t
                ELSE IF Len(ta) # b.n THEN Ok(Err, t.m)
                ELSE IF IsErr(el.r) THEN el
                ELSE IF Len(ea) # b.n THEN Ok(Err, el.m)
                ELSE Ok(Array([i \in 1 .. b.n |->
                                 IF match[i] = "t" THEN ta[i] ELSE ea[i]]), el.m)
      [] Kind(e) = "cached" ->
            \* Cache::get(id, || orig_expr.evaluate(batch))
            IF m.values[e[2] + 1] # None
            THEN Ok(m.values[e[2] + 1], m)
            ELSE CacheStore(e[2], m, Evaluate(e[3], b, m, fail))

(***************************************************************************)
(* FilterStat and filter_one_pred.                                         *)
(***************************************************************************)
AllRetained == <<"AllRetained">>
AllFiltered == <<"AllFiltered">>
Some(mask)  == <<"Some", mask>>

\* the match on pred_ret with every scalar taken as "keep the state"
ClassifyAnyScalarKeeps(pred_ret, current_filtered) ==
    IF pred_ret[1] = "S" THEN current_filtered
    ELSE Some(PrepNullMaskFilter(pred_ret[2]))

\* the match on pred_ret without prep_null_mask_filter
ClassifyKeepNulls(pred_ret, current_filtered) ==
    IF pred_ret = Scalar("t") THEN current_filtered
    ELSE IF pred_ret[1] = "S" THEN AllFiltered
    ELSE Some([i \in DOMAIN pred_ret[2] |->
                 IF pred_ret[2][i] = "f" THEN "f" ELSE "t"])

\* the match on pred_ret at the end of filter_one_pred
Classify(pred_ret, current_filtered) ==
    IF pred_ret = Scalar("t") THEN current_filtered
    ELSE IF pred_ret[1] = "S" THEN AllFiltered
    ELSE Some(PrepNullMaskFilter(pred_ret[2]))

PredKind(pred_ret) ==
    IF IsErr(pred_ret) THEN "error"
    ELSE IF pred_ret = Scalar("t") THEN "scalar_true"
    ELSE IF pred_ret[1] = "S" THEN "scalar_other" ELSE "array"

\* the new FilterStat for the predicate's result x = [r, m]; a result array
\* that is not one value per row of the batch is an error
PredOutcome(x, n, current_filtered) ==
    IF IsErr(x.r) \/ (x.r[1] = "A" /\ Len(x.r[2]) # n)
    THEN [stat |-> Err, m |-> x.m, pred |-> "error"]
    ELSE [stat |-> Classify(x.r, current_filtered), m |-> x.m,
          pred |-> PredKind(x.r)]

FilterOnePred(b, pruned_pred_expr, pruned_projection, current_filtered, m, fail) ==
    IF current_filtered = AllFiltered
    THEN [stat |-> AllFiltered, m |-> m, pred |-> "none"]
    ELSE PredOutcome(
             IF current_filtered[1] = "Some"
             THEN EvaluateSelection(pruned_pred_expr,
                                    ProjectBatch(b, pruned_projection),
                                    current_filtered[2], m, fail)
             ELSE Evaluate(pruned_pred_expr,
                           ProjectBatch(b, pruned_projection), m, fail),
             b.n, current_filtered)

(***************************************************************************)
(* Cache::update_all with the closure of filter_impl: every cached array   *)
(* is scattered back by the previous selection, if any, and filtered by    *)
(* the new one.                                                            *)
(***************************************************************************)
\* the closure leaving every cached value as it is
UpdateOneKeep(value, previous_selected, selected) == value

\* the closure filtering without scattering back first
UpdateOneNoScatter(value, previous_selected, selected) ==
    IF value[1] = "A" THEN FilterArray(value[2], selected) ELSE value

\* the closure filtering only the values computed before any selection
UpdateOneFirstMask(value, previous_selected, selected) ==
    IF value[1] = "A" /\ previous_selected = None
    THEN FilterArray(value[2], selected) ELSE value

UpdateOne(value, previous_selected, selected) ==
    IF value[1] = "A"
    THEN IF previous_selected # None
         THEN LET s == Scatter(previous_selected[2], value[2])
              IN  IF IsErr(s) THEN Err ELSE FilterArray(s[2], selected)
         ELSE FilterArray(value[2], selected)
    ELSE value

UpdateAll(values, previous_selected, selected) ==
    LET updated_values ==
            [i \in DOMAIN values |->
                UpdateOne(values[i], previous_selected, selected)]
    IN  [ok |-> \A i \in DOMAIN values : ~IsErr(updated_values[i]),
         values |-> updated_values]

(***************************************************************************)
(* One iteration of the loop of filter_impl over predicate k.              *)
(* out: "next" (go on), "empty" (return the empty batch), "err".           *)
(***************************************************************************)
\* the loop going on to the next predicate after AllFiltered
IterOutcomeGoOn(one, current_filtered) ==
    IF IsErr(one.stat)
    THEN [out |-> "err", stat |-> current_filtered, m |-> one.m,
          pred |-> one.pred]
    ELSE [out |-> "next", stat |-> one.stat, m |-> one.m, pred |-> one.pred]

IterOutcome(one, current_filtered) ==
    LET previous_selected ==
            IF current_filtered[1] = "Some" THEN current_filtered ELSE None
        updated == UpdateAll(one.m.values, previous_selected, one.stat[2])
    IN  IF IsErr(one.stat)
        THEN [out |-> "err", stat |-> current_filtered, m |-> one.m,
              pred |-> one.pred]
        ELSE IF one.stat = AllFiltered
        THEN [out |-> "empty", stat |-> AllFiltered, m |-> one.m,
              pred |-> one.pred]
        ELSE IF one.stat[1] = "Some"
        THEN IF ~updated.ok
             THEN [out |-> "err", stat |-> one.stat, m |-> one.m,
                   pred |-> one.pred]
             ELSE [out |-> "next", stat |-> one.stat,
                   m |-> [one.m EXCEPT !.values = updated.values], pred |-> one.pred]
        ELSE [out |-> "next", stat |-> one.stat, m |-> one.m,
              pred |-> one.pred]

FilterIter(filters, b, k, current_filtered, m, fail) ==
    IterOutcome(FilterOnePred(b, filters[k].expr, filters[k].proj,
                              current_filtered, m, fail),
                current_filtered)

\* the match after the loop of filter_impl
Materialize(b, current_filtered) ==
    CASE current_filtered = AllFiltered -> NewEmpty(b.schema)
      [] current_filtered = AllRetained -> b
      [] OTHER -> FilterRecordBatch(b, current_filtered[2])

\* filter_impl as a whole, from predicate k on: [res, m]
RECURSIVE FilterImplFrom(_, _, _, _, _, _)
RECURSIVE AfterIter(_, _, _, _, _)
AfterIter(filters, b, k, it, fail) ==
    CASE it.out = "err" -> [res |-> ErrRes, m |-> it.m]
      [] it.out = "empty" -> [res |-> OkRes(NewEmpty(b.schema)), m |-> it.m]
      [] OTHER -> FilterImplFrom(filters, b, k + 1, it.stat, it.m, fail)

FilterImplFrom(filters, b, k, current_filtered, m, fail) ==
    IF k > Len(filters)
    THEN [res |-> OkRes(Materialize(b, current_filtered)), m |-> m]
    ELSE AfterIter(filters, b, k,
                   FilterIter(filters, b, k, current_filtered, m, fail), fail)

\* the projection phase of filter_project_impl from expression j on:
\* the output columns, or Err at the first failing expression
\* whether the value of a projection expression makes one column
ColumnOk(x, n) == ~IsErr(x.r) /\ Len(IntoArray(x.r, n)) = n

RECURSIVE ProjectFrom(_, _, _, _, _, _)
RECURSIVE AfterProject(_, _, _, _, _, _)
AfterProject(projs, filtered_batch, j, x, fail, acc) ==
    IF ~ColumnOk(x, filtered_batch.n)
    THEN [ok |-> FALSE, cols |-> <<>>, m |-> x.m]
    ELSE ProjectFrom(projs, filtered_batch, j + 1, x.m, fail,
                     Append(acc, IntoArray(x.r, filtered_batch.n)))

ProjectFrom(projs, filtered_batch, j, m, fail, acc) ==
    IF j > Len(projs) THEN [ok |-> TRUE, cols |-> acc, m |-> m]
    ELSE AfterProject(projs, filtered_batch, j,
                      Evaluate(projs[j], filtered_batch, m, fail), fail, acc)

Assemble(output_schema, p, n) ==
    IF p.ok THEN OkRes(Batch(output_schema, p.cols, n)) ELSE ErrRes

\* filter_project_impl after filter_impl returned f = [res, m]
AfterFilter(projs, f, output_schema, fail) ==
    IF f.res.tag = "err" THEN ErrRes
    ELSE IF f.res.batch.n = 0 THEN OkRes(NewEmpty(output_schema))
    ELSE Assemble(output_schema,
                  ProjectFrom(projs, f.res.batch, 1, f.m, fail, <<>>),
                  f.res.batch.n)

\* filter_project_impl as a whole
FilterProjectImpl(filters, projs, b, output_schema, m, fail) ==
    AfterFilter(projs, FilterImplFrom(filters, b, 1, AllRetained, m, fail),
                output_schema, fail)

(***************************************************************************)
(* CachedExprsEvaluator::try_new.                                          *)
(***************************************************************************)
TryNew(filter_exprs, projection_exprs, ids) ==
    LET exprs == filter_exprs \o projection_exprs
        transformed_exprs == [i \in DOMAIN exprs |-> Transform(exprs[i], ids)]
        nf == Len(filter_exprs)
    IN  [filter_exprs |-> filter_exprs,
         projection_exprs |-> projection_exprs,
         transformed_pruned_filter_exprs |->
             [i \in 1 .. nf |-> PruneExprCols(transformed_exprs[i])],
         transformed_projection_exprs |->
             [i \in 1 .. Len(projection_exprs) |-> transformed_exprs[nf + i]],
         cache_len |-> Cardinality(DOMAIN ids)]

\* Cache::new(len) / the slots after Cache::reset
EmptySlots(n) == [i \in 1 .. n |-> None]

\* Cache::reset (values.fill(None))
ResetKeep(values) == values

Reset(values) == EmptySlots(Len(values))

ZeroEvals(n) == [i \in 1 .. n |-> 0]

(***************************************************************************)
(* The inputs of the evaluator model: expression forests and batches.      *)
(***************************************************************************)
\* subexpressions that occur at several places of a forest
SharedExprs == {And(Col(0), Col(1)), Udf(Col(1))}

\* forests of filter (f) and projection (p) expressions around a shared X
Forest(f, p) == [f |-> f, p |-> p]

Forests(X) ==
    { Forest(<<>>, <<>>),
      Forest(<<>>, <<X, Not(X)>>),
      Forest(<<X>>, <<X>>),
      Forest(<<Lit("t")>>, <<Col(1)>>),
      Forest(<<Lit("f")>>, <<X>>),
      Forest(<<Lit("n")>>, <<>>),
      Forest(<<Col(1), Lit("t")>>, <<Col(0)>>),
      Forest(<<Col(0), Lit("n")>>, <<>>),
      Forest(<<X, Not(X)>>, <<>>),
      Forest(<<Col(1), X>>, <<Not(X), Col(1)>>),
      Forest(<<Col(0), X, IsNull(X)>>, <<X>>),
      Forest(<<X, SCAnd(Col(1), X)>>, <<>>),
      Forest(<<SCOr(X, Col(0)), Not(X)>>, <<X>>),
      Forest(<<Case(X, Col(1), Col(0), NoOp), X>>, <<>>),
      Forest(<<Col(1), Case(NoOp, Col(0), X, Lit("t"))>>, <<SCAnd(X, Not(X))>>),
      Forest(<<Col(1)>>, <<Case(X, Lit("t"), X, Col(0))>>),
      Forest(<<IsNull(X), Col(0)>>, <<X>>),
      Forest(<<Not(Not(X)), Not(X)>>, <<X>>),
      Forest(<<Col(0), Lit("f"), X>>, <<X>>),
      Forest(<<>>, <<Udf2(SigCoalesce, Col(0), Col(1)),
                     Udf2(SigCoalesce, Col(1), Col(0))>>),
      Forest(<<Udf2(SigCoalesce, Col(0), Col(1)),
               Udf2(SigCoalesce, Col(1), Col(0))>>, <<>>),
      Forest(<<Udf2(SigAndNot, Col(0), Col(1))>>,
             <<Udf2(SigAndNot, Col(0), Col(1)),
               Udf2(SigCoalesce, Col(0), Col(1))>>) }

Schema == <<"c0", "c1">>

OutputSchema(n) == [i \in 1 .. n |-> "out"]

Batches ==
    UNION {{Batch(Schema, <<c0, c1>>, n) :
               c0 \in [1 .. n -> Values], c1 \in [1 .. n -> Values]}
             : n \in 0 .. MaxRows}

(***************************************************************************)
(* The evaluator as a state machine.  A top-level call (filter or          *)
(* filter_project) runs inside Cache::with: reset, the body step by step   *)
(* (one predicate, one projection expression at a time), reset, return.    *)
(***************************************************************************)
CodecOff == [pc |-> "off"]
HashOff  == [pc |-> "off"]
PlanOff  == [pc |-> "off"]
UdfOff   == [pc |-> "off"]
ConcOff  == [pc |-> "off"]

IdleCall ==
    [pc |-> "idle", kind |-> "none", batch |-> NewEmpty(Schema), fail |-> FALSE,
     k |-> 1, stat |-> AllRetained, prev |-> AllRetained,
     filtered |-> NewEmpty(Schema), j |-> 1, cols |-> <<>>, res |-> NoRes,
     preds |-> <<>>, projected |-> 0, filled |-> FALSE]

HasUdf(exprs) ==
    \E i \in DOMAIN exprs :
        \E x \in Range(Nodes(exprs[i])) : Kind(x) \in {"udf", "udf2"}

\* whether the external function can fail in a call
FailChoices == IF HasUdf(ev.filter_exprs \o ev.projection_exprs)
               THEN BOOLEAN ELSE {FALSE}

Mem == [values |-> cache, evals |-> evals]

\* Cache::with: "reset before using cache"
CacheWithEnter(values) == Reset(values)

\* Cache::with without its second reset
CacheWithExitKeep(values) == values

\* Cache::with: "reset after using cache (to release holding arrays)"
CacheWithExit(values) == Reset(values)

Init ==
    /\ \E X \in SharedExprs :
         \E forest \in Forests(X) :
            \E ids \in IdAssignments(Dups(forest.f \o forest.p)) :
               ev = TryNew(forest.f, forest.p, ids)
    /\ cache = EmptySlots(ev.cache_len)
    /\ evals = ZeroEvals(ev.cache_len)
    /\ call = IdleCall
    /\ codec = CodecOff
    /\ hash = HashOff
    /\ plan = PlanOff
    /\ udf = UdfOff
    /\ conc = ConcOff

Enter(kind, b, fail) ==
    /\ call.pc = "idle"
    /\ call.kind = "none"
    /\ cache' = CacheWithEnter(cache)
    /\ evals' = ZeroEvals(ev.cache_len)
    /\ call' = [IdleCall EXCEPT !.pc = "filter", !.kind = kind, !.batch = b,
                                !.fail = fail]
    /\ UNCHANGED <<ev, codec, hash, plan, udf, conc>>

\* pub fn filter(&self, batch)
CallFilter == \E b \in Batches, fail \in FailChoices : Enter("filter", b, fail)

\* pub fn filter_project(&self, batch, output_schema)
CallFilterProject ==
    \E b \in Batches, fail \in FailChoices : Enter("filter_project", b, fail)

ResultSchema ==
    IF call.kind = "filter" THEN call.batch.schema
    ELSE OutputSchema(Len(ev.transformed_projection_exprs))

\* one iteration of the loop of filter_impl
FilterStepWith(it) ==
    /\ LET seen == [call EXCEPT !.preds = Append(@, it.pred),
                                !.prev = call.stat, !.stat = it.stat,
                                !.filled = @ \/ \E i \in DOMAIN it.m.values :
                                                   it.m.values[i] # None]
       IN  /\ cache' = it.m.values
           /\ evals' = it.m.evals
           /\ call' = CASE it.out = "err" ->
                             [seen EXCEPT !.pc = "exit", !.res = ErrRes]
                        [] it.out = "empty" ->
                             [seen EXCEPT !.pc = "exit",
                                          !.res = OkRes(NewEmpty(ResultSchema))]
                        [] OTHER -> [seen EXCEPT !.k = @ + 1]
    /\ UNCHANGED <<ev, codec, hash, plan, udf, conc>>

FilterStep ==
    /\ call.pc = "filter"
    /\ call.k <= Len(ev.transformed_pruned_filter_exprs)
    /\ FilterStepWith(FilterIter(ev.transformed_pruned_filter_exprs,
                                 call.batch, call.k, call.stat, Mem, call.fail))

\* the end of filter_impl and, for filter_project, the empty check
FilterDone ==
    /\ call.pc = "filter"
    /\ call.k > Len(ev.transformed_pruned_filter_exprs)
    /\ LET filtered_batch == Materialize(call.batch, call.stat)
       IN  call' = IF call.kind = "filter"
                   THEN [call EXCEPT !.pc = "exit",
                                     !.res = OkRes(filtered_batch)]
                   ELSE IF filtered_batch.n = 0
                   THEN [call EXCEPT !.pc = "exit",
                                     !.res = OkRes(NewEmpty(ResultSchema))]
                   ELSE [call EXCEPT !.pc = "project",
                                     !.filtered = filtered_batch]
    /\ UNCHANGED <<ev, cache, evals, codec, hash, plan, udf, conc>>

\* one projection expression of filter_project_impl
ProjectStepWith(x) ==
    /\ LET a == IntoArray(x.r, call.filtered.n)
           filled == call.filled \/ \E i \in DOMAIN x.m.values :
                                       x.m.values[i] # None
       IN  /\ cache' = x.m.values
           /\ evals' = x.m.evals
           /\ call' = IF ~ColumnOk(x, call.filtered.n)
                      THEN [call EXCEPT !.pc = "exit", !.res = ErrRes,
                                        !.projected = @ + 1,
                                        !.filled = filled]
                      ELSE [call EXCEPT !.j = @ + 1, !.cols = Append(@, a),
                                        !.projected = @ + 1,
                                        !.filled = filled]
    /\ UNCHANGED <<ev, codec, hash, plan, udf, conc>>

ProjectStep ==
    /\ call.pc = "project"
    /\ call.j <= Len(ev.transformed_projection_exprs)
    /\ ProjectStepWith(Evaluate(ev.transformed_projection_exprs[call.j],
                                call.filtered, Mem, call.fail))

\* RecordBatch::try_new_with_options(output_schema, output_cols, row count)
ProjectDone ==
    /\ call.pc = "project"
    /\ call.j > Len(ev.transformed_projection_exprs)
    /\ call' = [call EXCEPT !.pc = "exit",
                            !.res = OkRes(Batch(ResultSchema, call.cols,
                                                call.filtered.n))]
    /\ UNCHANGED <<ev, cache, evals, codec, hash, plan, udf, conc>>

\* the end of Cache::with: reset, then hand the result to the caller
Return ==
    /\ call.pc = "exit"
    /\ cache' = CacheWithExit(cache)
    /\ call' = [call EXCEPT !.pc = "idle"]
    /\ UNCHANGED <<ev, evals, codec, hash, plan, udf, conc>>

\* the caller takes the returned batch (or error); the evaluator is ready
\* for the next call
Consume ==
    /\ call.pc = "idle"
    /\ call.kind # "none"
    /\ call' = IdleCall
    /\ UNCHANGED <<ev, cache, evals, codec, hash, plan, udf, conc>>

Next ==
    \/ CallFilter
    \/ CallFilterProject
    \/ FilterStep
    \/ FilterDone
    \/ ProjectStep
    \/ ProjectDone
    \/ Return
    \/ Consume

Spec == Init /\ [][Next]_vars

(***************************************************************************)
(* Properties of the evaluator.                                            *)
(***************************************************************************)
\* the values of row i of a batch, by column
RowOf(b, i) == [c \in DOMAIN b.cols |-> b.cols[c][i]]

\* the value of an original (undecorated) expression on one row, in SQL
\* three-valued logic
RECURSIVE RowEval(_, _)
RowEval(e, row) ==
    CASE Kind(e) = "col" -> row[e[2] + 1]
      [] Kind(e) = "lit" -> e[2]
      [] Kind(e) = "noop" -> "n"
      [] Kind(e) = "not" -> NotV(RowEval(e[2], row))
      [] Kind(e) = "isnull" -> IsNullV(RowEval(e[2], row))
      [] Kind(e) = "udf" -> UdfV(RowEval(e[2], row))
      [] Kind(e) = "udf2" ->
            UdfV2(e[2], RowEval(e[3], row), RowEval(e[4], row))
      [] Kind(e) \in {"and", "scand"} ->
            AndV(RowEval(e[2], row), RowEval(e[3], row))
      [] Kind(e) = "scor" -> OrV(RowEval(e[2], row), RowEval(e[3], row))
      [] Kind(e) = "case" ->
            LET base == IF e[2] = NoOp THEN "t" ELSE RowEval(e[2], row)
                w == RowEval(e[3], row)
            IN  IF base # "n" /\ w # "n" /\ base = w THEN RowEval(e[4], row)
                ELSE IF e[5] = NoOp THEN "n" ELSE RowEval(e[5], row)

\* "t" for the rows on which every filter predicate is true, "f" elsewhere
PassingRows(b) ==
    [i \in 1 .. b.n |->
        IF \A k \in DOMAIN ev.filter_exprs :
               RowEval(ev.filter_exprs[k], RowOf(b, i)) = "t"
        THEN "t" ELSE "f"]

RowsKept(b, keep) ==
    Batch(b.schema, [c \in DOMAIN b.cols |-> FilterFrom(b.cols[c], keep, 1)],
          CountTrue(keep))

Returned(kind) == call.pc = "idle" /\ call.kind = kind

\* C2: a successful filter returns exactly the rows of the batch, in their
\* original order, on which every predicate evaluates to true; a row on which
\* some predicate is false or null is excluded.
FilterKeepsExactlyTrueRows ==
    (Returned("filter") /\ call.res.tag = "ok")
        => call.res.batch = RowsKept(call.batch, PassingRows(call.batch))

\* a filter of two or more predicates returned some but not all rows, and a
\* predicate was null on an excluded row
FilterDroppedNullRow ==
    /\ Returned("filter") /\ call.res.tag = "ok"
    /\ Len(ev.filter_exprs) >= 2
    /\ call.res.batch.n > 0
    /\ \E i \in 1 .. call.batch.n :
          /\ \E k \in DOMAIN ev.filter_exprs :
                RowEval(ev.filter_exprs[k], RowOf(call.batch, i)) = "n"
          /\ \A k \in DOMAIN ev.filter_exprs :
                RowEval(ev.filter_exprs[k], RowOf(call.batch, i)) # "f"

\* the evaluator without the transform: the original expressions, pruned,
\* and a cache of no slots
OriginalFilters ==
    [i \in DOMAIN ev.filter_exprs |-> PruneExprCols(ev.filter_exprs[i])]

NoCache == [values |-> <<>>, evals |-> <<>>]

UntransformedResult ==
    IF call.kind = "filter"
    THEN FilterImplFrom(OriginalFilters, call.batch, 1, AllRetained, NoCache,
                        call.fail).res
    ELSE FilterProjectImpl(OriginalFilters, ev.projection_exprs, call.batch,
                           OutputSchema(Len(ev.projection_exprs)), NoCache,
                           call.fail)

\* C3: what a call returns with the transformed expressions and the per-call
\* cache is what the original, untransformed expressions return: the same
\* filtered rows and the same projected column values.
TransformIsTransparent ==
    (call.pc = "idle" /\ call.kind # "none") => call.res = UntransformedResult

HasCachedUnder(e) ==
    \E x \in Range(Nodes(e)) :
        IsShortCircuit(x) /\ Kind(x) # "cached"
        /\ \E y \in Range(Nodes(x)) : Kind(y) = "cached"

\* a filter_project call returned rows after a cached value was reused, with a
\* shared subexpression sitting under a short-circuit node
ReturnedFromCacheHit ==
    /\ Returned("filter_project") /\ call.res.tag = "ok"
    /\ call.res.batch.n > 0
    /\ \E i \in DOMAIN evals : evals[i] = 1
    /\ call.filled
    /\ \E k \in DOMAIN ev.transformed_projection_exprs :
          HasCachedUnder(ev.transformed_projection_exprs[k])

\* filter(b), then each projection expression over the filtered batch
ProjectionOverFilter ==
    AfterFilter(ev.projection_exprs,
                [res |-> FilterImplFrom(ev.transformed_pruned_filter_exprs,
                                        call.batch, 1, AllRetained,
                                        [values |-> EmptySlots(ev.cache_len),
                                         evals |-> ZeroEvals(ev.cache_len)],
                                        call.fail).res,
                 m |-> NoCache],
                OutputSchema(Len(ev.projection_exprs)), call.fail)

\* C4: filter_project(b, s) returns the batch made by filter(b) followed by
\* the projection expressions over the filtered batch, assembled under s; when
\* no row passes the filter it returns the empty batch of schema s and no
\* projection expression has been evaluated.
FilterProjectIsProjectOfFilter ==
    Returned("filter_project") =>
        /\ call.res = ProjectionOverFilter
        /\ (call.res.tag = "ok" /\ call.res.batch.n = 0) =>
              /\ call.projected = 0
              /\ call.res.batch = NewEmpty(OutputSchema(Len(ev.projection_exprs)))

\* filter_project returned projected columns of some, not all, rows
ProjectedSomeRows ==
    /\ Returned("filter_project") /\ call.res.tag = "ok"
    /\ call.res.batch.n > 0 /\ call.res.batch.n < call.batch.n
    /\ Len(call.res.batch.cols) > 0
    /\ Len(call.preds) >= 2
    /\ call.projected > 0

\* C5: whenever no top-level call is in progress every cache slot is empty.
CacheEmptyBetweenCalls ==
    call.pc = "idle" => \A i \in DOMAIN cache : cache[i] = None

\* a call that had filled a cache slot has returned
ReturnedAfterFillingCache ==
    call.pc = "idle" /\ call.kind # "none" /\ call.filled /\ Len(cache) > 0

\* C6: a predicate whose result is the scalar true leaves the selection state
\* unchanged; a predicate whose result is another scalar (false or null) ends
\* the call with zero rows under the schema of the input.
ScalarPredicateOutcome ==
    /\ (call.preds # <<>> /\ call.preds[Len(call.preds)] = "scalar_true")
          => call.stat = call.prev
    /\ (call.preds # <<>> /\ call.preds[Len(call.preds)] = "scalar_other")
          => /\ call.pc \in {"exit", "idle"}
             /\ call.res.tag = "ok" /\ call.res.batch.n = 0
             /\ call.kind = "filter" =>
                   call.res.batch = NewEmpty(call.batch.schema)
    /\ (Returned("filter") /\ call.preds # <<>>
        /\ \A k \in DOMAIN call.preds : call.preds[k] = "scalar_true")
          => call.res = OkRes(call.batch)

\* filter over a batch with rows returned no row because the second predicate
\* was a scalar other than true
ScalarNullEndedFilter ==
    /\ Returned("filter") /\ call.batch.n > 0
    /\ call.preds = <<"array", "scalar_other">>
    /\ call.prev[1] = "Some" /\ CountTrue(call.prev[2]) > 0

(***************************************************************************)
(* 32-bit words.  A word is kept as the i32 it denotes; arithmetic wraps     *)
(* and is done on 16-bit halves and bytes.                                 *)
(***************************************************************************)
W16 == 256 * 256

Lo(x) == x % W16
Hi(x) == ((x - Lo(x)) \div W16) % W16
Mk(hi, lo) == IF hi >= 32768 THEN (hi - W16) * W16 + lo ELSE hi * W16 + lo

RECURSIVE Pow2(_)
Pow2(r) == IF r = 0 THEN 1 ELSE 2 * Pow2(r - 1)

RECURSIVE XorBits(_, _, _)
XorBits(a, b, n) ==
    IF n = 0 THEN 0
    ELSE ((a + b) % 2) + 2 * XorBits(a \div 2, b \div 2, n - 1)

\* ^ on i32
Xor(x, y) == Mk(XorBits(Hi(x), Hi(y), 16), XorBits(Lo(x), Lo(y), 16))

\* wrapping + on i32
WrappingAdd(x, y) ==
    LET lo == Lo(x) + Lo(y)
    IN  Mk((Hi(x) + Hi(y) + (lo \div W16)) % W16, lo % W16)

\* the four bytes of a word, least significant first (to_le_bytes)
ToLeBytes(x) ==
    <<Lo(x) % 256, Lo(x) \div 256, Hi(x) % 256, Hi(x) \div 256>>

\* the i32 whose little-endian bytes are b[i .. i+3]
FromLeBytes(b, i) == Mk(b[i + 3] * 256 + b[i + 2], b[i + 1] * 256 + b[i])

\* wrapping * on i32
WrappingMul(x, y) ==
    LET a == ToLeBytes(x)
        b == ToLeBytes(y)
        t0 == a[1] * b[1]
        t1 == a[1] * b[2] + a[2] * b[1] + (t0 \div 256)
        t2 == a[1] * b[3] + a[2] * b[2] + a[3] * b[1] + (t1 \div 256)
        t3 == a[1] * b[4] + a[2] * b[3] + a[3] * b[2] + a[4] * b[1] + (t2 \div 256)
    IN  Mk((t3 % 256) * 256 + (t2 % 256), (t1 % 256) * 256 + (t0 % 256))

\* << by r < 16 bits
Shl(x, r) ==
    Mk((Hi(x) * Pow2(r) + (Lo(x) \div Pow2(16 - r))) % W16,
       (Lo(x) * Pow2(r)) % W16)

\* (x as u32 >> r) as i32
RECURSIVE Shr(_, _)
Shr(x, r) ==
    IF r >= 16 THEN (IF r = 16 THEN Mk(0, Hi(x)) ELSE Shr(Mk(0, Hi(x)), r - 16))
    ELSE Mk(Hi(x) \div Pow2(r),
            (Lo(x) \div Pow2(r)) + (Hi(x) % Pow2(r)) * Pow2(16 - r))

\* i32::rotate_left by r < 16
RotateLeft(x, r) == WrappingAdd(Shl(x, r), Shr(x, 32 - r))

\* i32::reverse_bits
RECURSIVE ReverseBits16(_, _)
ReverseBits16(a, n) ==
    IF n = 0 THEN 0
    ELSE (a % 2) * Pow2(n - 1) + ReverseBits16(a \div 2, n - 1)

ReverseBits(x) == Mk(ReverseBits16(Lo(x), 16), ReverseBits16(Hi(x), 16))

(***************************************************************************)
(* spark_compatible_murmur3_hash.                                          *)
(***************************************************************************)
MurmurC1 == Mk(52382, 11601)    \* 0xcc9e2d51
MurmurC2 == Mk(7047, 13715)     \* 0x1b873593
MurmurN  == Mk(58964, 27492)    \* 0xe6546b64
FmixC1   == Mk(34283, 51819)    \* 0x85ebca6b
FmixC2   == Mk(49842, 44597)    \* 0xc2b2ae35

\* the steps are functions of their argument values: an argument is
\* evaluated before the step is applied
mix_k1(k1) ==
    LET mix[k \in Int] ==
            WrappingMul(RotateLeft(WrappingMul(k, MurmurC1), 15), MurmurC2)
    IN  mix[k1]

\* mix_h1 rotating by 15 as mix_k1 does
mix_h1_rot15(h1, k1) ==
    LET mix[h \in Int, k \in Int] ==
            WrappingAdd(WrappingMul(RotateLeft(Xor(h, k), 15), 5), MurmurN)
    IN  mix[h1, k1]

mix_h1(h1, k1) ==
    LET mix[h \in Int, k \in Int] ==
            WrappingAdd(WrappingMul(RotateLeft(Xor(h, k), 13), 5), MurmurN)
    IN  mix[h1, k1]

fmix(h1, len) ==
    LET xor_len[h \in Int] == Xor(h, len)
        xor_shr[h \in Int, r \in Int] == Xor(h, Shr(h, r))
        mul[h \in Int, c \in Int] == WrappingMul(h, c)
    IN  xor_shr[mul[xor_shr[mul[xor_shr[xor_len[h1], 16], FmixC1], 13],
                    FmixC2], 16]

\* cfg!(target_endian = "big"): the engine is built for little-endian targets
TargetBigEndian == FALSE

\* *(data.as_ptr().add(i) as *const i32): the four bytes at i in memory order.
\* The pointer is that of a byte slice; where it is not 4-byte aligned the
\* read is undefined: it yields the same word, or the build traps (see
\* ReadsHalfWord and HashColumnWith)
ReadHalfWord(data, i) ==
    IF TargetBigEndian
    THEN ReverseBits(Mk(data[i] * 256 + data[i + 1],
                        data[i + 2] * 256 + data[i + 3]))
    ELSE FromLeBytes(data, i)

\* the loop over the 4-byte words of data[1 .. len_aligned], from seed
hash_bytes_by_int(data, len_aligned, seed) ==
    LET h[w \in 0 .. len_aligned \div 4] ==
            IF w = 0 THEN seed
            ELSE mix_h1(h[w - 1], mix_k1(ReadHalfWord(data, 4 * w - 3)))
    IN  h[len_aligned \div 4]

\* a tail byte taken as u8 as i32
TailByteUnsigned(byte) == byte

\* *data.get_unchecked(i) as i8 as i32
TailByte(byte) == IF byte >= 128 THEN byte - 256 ELSE byte

\* the loop over the tail bytes data[len_aligned + 1 .. len]
HashTail(data, len_aligned, h1) ==
    LET h[i \in len_aligned .. Len(data)] ==
            IF i = len_aligned THEN h1
            ELSE mix_h1(h[i - 1], mix_k1(TailByte(data[i])))
    IN  h[Len(data)]

spark_compatible_murmur3_hash(data, seed) ==
    LET len_aligned == Len(data) - (Len(data) % 4)
    IN  fmix(HashTail(data, len_aligned,
                      hash_bytes_by_int(data, len_aligned, seed)),
             Len(data))

(***************************************************************************)
(* Arrow arrays as create_hashes sees them.  valid[i] is the validity bit   *)
(* of slot i.  Values: a boolean; an integer for int8/int16/int32/date32;  *)
(* the bit pattern for float32; <<high word, low word>> for a 64-bit type; *)
(* <<w3, w2, w1, w0>> for decimal128; the bytes for utf8/binary.           *)
(***************************************************************************)
PrimitiveArray(type, values, valid) ==
    [type |-> type, values |-> values, valid |-> valid]

\* keys are 0-based indices into the dictionary values
DictionaryArray(keys, valid, values) ==
    [type |-> "dictionary", keys |-> keys, valid |-> valid, values |-> values]

\* offsets are the n+1 value offsets of the n rows, 0-based into values
ListArray(offsets, valid, values) ==
    [type |-> "list", offsets |-> offsets, valid |-> valid, values |-> values]

MapArray(offsets, valid, keys, values) ==
    [type |-> "map", offsets |-> offsets, valid |-> valid, keys |-> keys,
     values |-> values]

StructArray(valid, columns) ==
    [type |-> "struct", valid |-> valid, columns |-> columns]

AllValid(n) == [i \in 1 .. n |-> TRUE]

ArrayLen(array) ==
    CASE array.type = "dictionary" -> Len(array.keys)
      [] array.type \in {"list", "map"} -> Len(array.offsets) - 1
      [] array.type = "struct" -> Len(array.valid)
      [] OTHER -> Len(array.values)

\* Array::null_count
NullCount(array) == Cardinality({i \in DOMAIN array.valid : ~array.valid[i]})

Types32 == {"int8", "int16", "int32", "float32", "date32"}
Types64 == {"int64", "float64", "timestamp", "date64"}
TypesBytes == {"utf8", "large_utf8", "binary", "large_binary"}
HashableTypes == {"boolean", "decimal128"} \cup Types32 \cup Types64 \cup TypesBytes

\* the bytes handed to the hash: (*value as $ty).to_le_bytes(), or the value's
\* own bytes for text and binary
ValueBytes(type, v) ==
    CASE type = "boolean" -> ToLeBytes(IF v THEN 1 ELSE 0)
      [] type \in Types32 -> ToLeBytes(v)
      [] type \in Types64 -> ToLeBytes(v[2]) \o ToLeBytes(v[1])
      [] type = "decimal128" ->
            ToLeBytes(v[4]) \o ToLeBytes(v[3]) \o ToLeBytes(v[2]) \o ToLeBytes(v[1])
      [] OTHER -> v

\* hash_array_primitive with the is_null test dropped
hash_array_primitive_no_null_check(array, hashes) ==
    [i \in DOMAIN hashes |->
        spark_compatible_murmur3_hash(ValueBytes(array.type, array.values[i]),
                                      hashes[i])]

\* hash_array_primitive! (and hash_array!, hash_array_decimal!, the Boolean
\* arm): every valid row's value is mixed into the row's hash
hash_array_primitive(array, hashes) ==
    [i \in DOMAIN hashes |->
        IF NullCount(array) = 0 \/ array.valid[i]
        THEN spark_compatible_murmur3_hash(
                 ValueBytes(array.type, array.values[i]), hashes[i])
        ELSE hashes[i]]

\* hash_list!, hash_list_primitive!, ...: the valid elements from..to-1 of the
\* child array, mixed one after the other into one hash
hash_list(values, from, to, row_hash) ==
    LET h[k \in from .. to] ==
            IF k = from THEN row_hash
            ELSE IF NullCount(values) = 0 \/ values.valid[k]
            THEN spark_compatible_murmur3_hash(
                     ValueBytes(values.type, values.values[k]), h[k - 1])
            ELSE h[k - 1]
    IN  IF to < from THEN row_hash ELSE h[to]

\* update_map_hashes: entry idx of a key or value array
update_map_hashes(array, idx, row_hash) ==
    IF array.valid[idx + 1]
    THEN spark_compatible_murmur3_hash(
             ValueBytes(array.type, array.values[idx + 1]), row_hash)
    ELSE row_hash

\* the inner loop of the Map arm: entries from..to-1, key then value
hash_map_entries(array, from, to, row_hash) ==
    LET h[k \in from .. to] ==
            IF k = from THEN row_hash
            ELSE update_map_hashes(array.values, k - 1,
                     update_map_hashes(array.keys, k - 1, h[k - 1]))
    IN  IF to < from THEN row_hash ELSE h[to]

HashesOk(hashes) == [ok |-> TRUE, hashes |-> hashes]
HashesErr == [ok |-> FALSE, hashes |-> <<>>]

\* the per-key assignment of create_hashes_dictionary, mixing the value's
\* bytes into the running hash instead
DictionaryAssignMixed(array, hashes_buffer, dict_hashes) ==
    [i \in DOMAIN hashes_buffer |->
        IF array.valid[i] /\ array.values.valid[array.keys[i] + 1]
        THEN spark_compatible_murmur3_hash(
                 ValueBytes(array.values.type,
                            array.values.values[array.keys[i] + 1]),
                 hashes_buffer[i])
        ELSE hashes_buffer[i]]

\* create_hashes_dictionary: for (hash, key) ... *hash = dict_hashes[idx]
DictionaryAssign(array, hashes_buffer, dict_hashes) ==
    [i \in DOMAIN hashes_buffer |->
        IF array.valid[i] THEN dict_hashes[array.keys[i] + 1]
        ELSE hashes_buffer[i]]

RECURSIVE create_hashes(_, _)
RECURSIVE create_hashes_from(_, _, _)
RECURSIVE HashColumn(_, _)

\* create_hashes_dictionary
create_hashes_dictionary(array, hashes_buffer) ==
    LET dict_hashes ==
            create_hashes(<<array.values>>,
                          [i \in 1 .. ArrayLen(array.values) |-> 0])
    IN  IF ~dict_hashes.ok THEN HashesErr
        ELSE HashesOk(DictionaryAssign(array, hashes_buffer, dict_hashes.hashes))

\* one arm of the match on col.data_type()
HashColumn(col, hashes_buffer) ==
    CASE col.type = "null" -> HashesOk(hashes_buffer)
      [] col.type \in HashableTypes ->
            HashesOk(hash_array_primitive(col, hashes_buffer))
      [] col.type = "dictionary" -> create_hashes_dictionary(col, hashes_buffer)
      [] col.type = "list" ->
            IF col.values.type \notin HashableTypes THEN HashesErr
            ELSE HashesOk([i \in DOMAIN hashes_buffer |->
                     hash_list(col.values, col.offsets[i], col.offsets[i + 1],
                               hashes_buffer[i])])
      [] col.type = "map" ->
            IF col.keys.type \notin HashableTypes
               \/ col.values.type \notin HashableTypes
            THEN HashesErr
            ELSE HashesOk([i \in DOMAIN hashes_buffer |->
                     hash_map_entries(col,
                                      IF i = 1 THEN 0 ELSE col.offsets[i],
                                      col.offsets[i + 1], hashes_buffer[i])])
      [] col.type = "struct" -> create_hashes(col.columns, hashes_buffer)
      [] OTHER -> HashesErr

\* for col in arrays { ... }, from column c on
create_hashes_from(arrays, c, hashes_buffer) ==
    IF c > Len(arrays) THEN HashesOk(hashes_buffer)
    ELSE LET one == HashColumn(arrays[c], hashes_buffer)
         IN  IF ~one.ok THEN HashesErr
             ELSE create_hashes_from(arrays, c + 1, one.hashes)

create_hashes(arrays, hashes_buffer) ==
    create_hashes_from(arrays, 1, hashes_buffer)

\* whether hash_bytes_by_int reads a word of data: len_aligned > 0
ReadsHalfWord(data) == Len(data) >= 4

RECURSIVE ColumnReadsHalfWord(_)

\* whether hashing the column reads a word through the raw pointer
ColumnReadsHalfWord(col) ==
    CASE col.type \in HashableTypes ->
            \E i \in DOMAIN col.values :
                /\ NullCount(col) = 0 \/ col.valid[i]
                /\ ReadsHalfWord(ValueBytes(col.type, col.values[i]))
      [] col.type = "dictionary" -> ColumnReadsHalfWord(col.values)
      [] col.type = "list" ->
            \E i \in 1 .. ArrayLen(col) :
                \E k \in (col.offsets[i] + 1) .. col.offsets[i + 1] :
                    /\ col.values.valid[k]
                    /\ ReadsHalfWord(ValueBytes(col.values.type,
                                                col.values.values[k]))
      [] col.type = "map" ->
            \E k \in 1 .. col.offsets[ArrayLen(col) + 1] :
                \/ /\ col.keys.valid[k]
                   /\ ReadsHalfWord(ValueBytes(col.keys.type,
                                               col.keys.values[k]))
                \/ /\ col.values.valid[k]
                   /\ ReadsHalfWord(ValueBytes(col.values.type,
                                               col.values.values[k]))
      [] col.type = "struct" ->
            \E c \in DOMAIN col.columns : ColumnReadsHalfWord(col.columns[c])
      [] OTHER -> FALSE

(***************************************************************************)
(* pmod.  A usize is <<high word, low word>>; a result is an index or the  *)
(* panic of the arithmetic.  overflow_checks tells whether the build       *)
(* panics on i32 overflow (debug) or wraps (release).                      *)
(***************************************************************************)
MinI32 == Mk(32768, 0)
MaxI32 == Mk(32767, 65535)

Usize(hi, lo) == <<hi, lo>>

\* i32 as usize on a 64-bit target: sign extension
AsUsize(x) == Usize(IF x < 0 THEN -1 ELSE 0, x)

Panic == [panic |-> TRUE, index |-> Usize(0, 0)]
Index(x) == [panic |-> FALSE, index |-> AsUsize(x)]

\* a % b on i32 for b # 0 and not (a = i32::MIN and b = -1): the remainder
\* has the sign of a
Rem(a, b) ==
    IF b = MinI32 THEN (IF a = MinI32 THEN 0 ELSE a)
    ELSE LET m == IF b < 0 THEN 0 - b ELSE b
             f == a % m
         IN  IF a >= 0 \/ f = 0 THEN f ELSE f - m

RemPanics(a, b) == b = 0 \/ (a = MinI32 /\ b = 0 - 1)

\* r + n leaves the i32 range (only with both negative here)
AddOverflows(r, n) == r < 0 /\ n < 0 /\ r < MinI32 - n

\* pmod taking n at its full width
pmod_wide(h, n, overflow_checks) ==
    IF n[1] # 0 \/ n[2] <= 0
    THEN Index(IF h >= 0 THEN h ELSE 0)
    ELSE Index(h % n[2])

pmod(h, n, overflow_checks) ==
    LET n32 == n[2]
        r == Rem(h, n32)
        s == WrappingAdd(r, n32)
    IN  IF RemPanics(h, n32) THEN Panic
        ELSE IF r >= 0 THEN Index(r)
        ELSE IF AddOverflows(r, n32) /\ overflow_checks THEN Panic
        ELSE IF RemPanics(s, n32) THEN Panic
        ELSE Index(Rem(s, n32))

(***************************************************************************)
(* The inputs of the hash model.                                           *)
(***************************************************************************)
HashInput(name, arrays) == [name |-> name, arrays |-> arrays]

\* the arrays of the tests of spark_hash.rs and spark_murmur3_hash.rs
TestI8 == PrimitiveArray("int8", <<1, 0, 0 - 1, 127, 0 - 128>>, AllValid(5))

TestI64 ==
    PrimitiveArray("int64",
                   << <<0, 1>>, <<0, 0>>, <<0 - 1, 0 - 1>>,
                      <<MaxI32, 0 - 1>>, <<MinI32, 0>> >>,
                   AllValid(5))

\* "hello", "bar", "", U+1F601, U+5929 U+5730
TestStr ==
    PrimitiveArray("utf8", <<(<<104, 101, 108, 108, 111>>), (<<98, 97, 114>>), (<<>>), (<<240, 159, 152, 129>>), (<<229, 164, 169, 229, 156, 176>>)>>,
                   AllValid(5))

\* "", "a", "ab", "abc", "abcd", "abcde"
TestMurmur3 ==
    PrimitiveArray("utf8", <<(<<>>), (<<97>>), (<<97, 98>>), (<<97, 98, 99>>), (<<97, 98, 99, 100>>), (<<97, 98, 99, 100, 101>>)>>,
                   AllValid(6))

\* three-row arrays with nulls
BoolNulls  == PrimitiveArray("boolean", <<TRUE, FALSE, TRUE>>, <<TRUE, FALSE, TRUE>>)
Int16Nulls == PrimitiveArray("int16", <<0 - 2, 300, 0>>, <<TRUE, TRUE, FALSE>>)
Int32Nulls == PrimitiveArray("int32", <<7, 0, 0 - 5>>, <<FALSE, TRUE, TRUE>>)
Int32Plain == PrimitiveArray("int32", <<1, 0, 2>>, AllValid(3))
Date64Nulls ==
    PrimitiveArray("date64", << <<0, 86400>>, <<0, 0>>, <<0 - 1, 0 - 1>> >>,
                   <<TRUE, FALSE, TRUE>>)
DecimalNulls ==
    PrimitiveArray("decimal128",
                   << <<0, 0, 0, 12345>>, <<0 - 1, 0 - 1, 0 - 1, 0 - 1>>, <<0, 0, 0, 0>> >>,
                   <<TRUE, TRUE, FALSE>>)
Utf8Nulls ==
    PrimitiveArray("utf8", <<(<<97>>), (<<>>), (<<97, 98, 99, 100, 101>>)>>, <<TRUE, TRUE, FALSE>>)

\* dictionary ["a", "ab"] with keys 1, 0, null
DictUtf8 ==
    DictionaryArray(<<1, 0, 0>>, <<TRUE, TRUE, FALSE>>,
                    PrimitiveArray("utf8", <<(<<97>>), (<<97, 98>>)>>, AllValid(2)))

\* dictionary [3, null] with keys 0, 1, 1
DictNullValue ==
    DictionaryArray(<<0, 1, 1>>, AllValid(3),
                    PrimitiveArray("int32", <<3, 9>>, <<TRUE, FALSE>>))

\* lists [1, null], null, [3]: the null row spans no element
ListNullEmpty ==
    ListArray(<<0, 2, 2, 3>>, <<TRUE, FALSE, TRUE>>,
              PrimitiveArray("int32", <<1, 2, 3>>, <<TRUE, FALSE, TRUE>>))

\* lists [1], null, [3]: the null row spans one element of the child array
ListNullSpan ==
    ListArray(<<0, 1, 2, 3>>, <<TRUE, FALSE, TRUE>>, Int32Plain)

ListOfList == ListArray(<<0, 1, 1, 1>>, AllValid(3), ListNullEmpty)

\* a dictionary of a type create_hashes does not hash
DictOfList == DictionaryArray(<<0, 0, 0>>, AllValid(3), ListOfList)

\* maps {1: "a"}, null, {2: null}
MapNullEmpty ==
    MapArray(<<0, 1, 1, 2>>, <<TRUE, FALSE, TRUE>>,
             PrimitiveArray("int32", <<1, 2>>, AllValid(2)),
             PrimitiveArray("utf8", <<(<<97>>), (<<>>)>>, <<TRUE, FALSE>>))

\* maps {2: "b"}, {3: "c"}: the slice (1, 2) of {1: "a"}, {2: "b"}, {3: "c"}.
\* MapArray::slice slices the offsets and keeps the entries
MapSliced ==
    MapArray(<<1, 2, 3>>, AllValid(2),
             PrimitiveArray("int32", <<1, 2, 3>>, AllValid(3)),
             PrimitiveArray("utf8", <<(<<97>>), (<<98>>), (<<99>>)>>,
                            AllValid(3)))

\* a struct whose null row has null children
StructNullChildren == StructArray(<<TRUE, FALSE, TRUE>>, <<BoolNulls>>)

\* a struct whose null row has a valid child value
StructValidChildren ==
    StructArray(<<TRUE, FALSE, TRUE>>, <<Int32Plain, Utf8Nulls>>)

ThreeRowArrays ==
    <<BoolNulls, Int16Nulls, Int32Nulls, Date64Nulls, DecimalNulls, Utf8Nulls>>

NamedInputs ==
    << HashInput("test_i8", <<TestI8>>),
       HashInput("test_i64", <<TestI64>>),
       HashInput("test_str", <<TestStr>>),
       HashInput("test_murmur3", <<TestMurmur3>>),
       HashInput("dict_utf8", <<DictUtf8>>),
       HashInput("dict_null_value", <<DictNullValue>>),
       HashInput("dict_of_list", <<DictOfList>>),
       HashInput("list_null_empty", <<ListNullEmpty>>),
       HashInput("list_null_span", <<ListNullSpan>>),
       HashInput("list_of_list", <<Int32Plain, ListOfList>>),
       HashInput("map_null_empty", <<MapNullEmpty>>),
       HashInput("struct_null_children", <<StructNullChildren>>),
       HashInput("struct_valid_children", <<StructValidChildren>>),
       HashInput("dict_after_int", <<Int32Nulls, DictUtf8>>),
       HashInput("map_sliced", <<MapSliced>>) >>

\* an input by number: a named one, or a pair of three-row arrays
HashInputAt(k) ==
    IF k <= Len(NamedInputs) THEN NamedInputs[k]
    ELSE LET p == k - Len(NamedInputs) - 1
             w == Len(ThreeRowArrays)
         IN  HashInput("pair", <<ThreeRowArrays[(p \div w) + 1],
                                 ThreeRowArrays[(p % w) + 1]>>)

HashInputNumbers ==
    1 .. (Len(NamedInputs) + Len(ThreeRowArrays) * Len(ThreeRowArrays))

\* spark_murmur3_default_seed
DefaultSeed == 42

\* seed buffers a caller of create_hashes supplies for n rows
SeedBuffers(n) ==
    {[i \in 1 .. n |-> 0], [i \in 1 .. n |-> DefaultSeed],
     [i \in 1 .. n |-> 1000 * i - 1]}

\* partition counts: 1, 2, 200, 2^31-1, 2^31, 2^32-2, 2^32-1, 2^32, 2^32+3
PartitionCounts ==
    {Usize(0, 1), Usize(0, 2), Usize(0, 200), Usize(0, MaxI32),
     Usize(0, MinI32), Usize(0, 0 - 2), Usize(0, 0 - 1), Usize(1, 0),
     Usize(1, 3)}

(***************************************************************************)
(* The hash as a state machine: a call of create_hashes goes over the      *)
(* columns one by one; the caller then maps the final hashes to partitions.*)
(***************************************************************************)
HashIdle ==
    [pc |-> "idle", input |-> "", arrays |-> <<>>, seeds |-> <<>>,
     buffer |-> <<>>, before |-> <<>>, col |-> 1, n |-> Usize(0, 1),
     parts |-> <<>>, traps |-> FALSE]

InitHash ==
    /\ ev = TryNew(<<>>, <<>>, <<>>)
    /\ cache = <<>>
    /\ evals = <<>>
    /\ call = IdleCall
    /\ codec = CodecOff
    /\ hash = HashIdle
    /\ plan = PlanOff
    /\ udf = UdfOff
    /\ conc = ConcOff

\* traps: the values of this call lie at addresses that are not 4-byte
\* aligned and the build traps on such a read
HashEnter(in, seeds) ==
    /\ hash.pc = "idle"
    /\ \E traps \in BOOLEAN :
          hash' = [HashIdle EXCEPT !.pc = "cols", !.input = in.name,
                                  !.arrays = in.arrays, !.seeds = seeds,
                                  !.buffer = seeds, !.before = seeds,
                                  !.traps = traps]
    /\ UNCHANGED <<ev, cache, evals, call, codec, plan, udf, conc>>

\* spark_murmur3_hash(args): the buffer starts as vec![42; len]
SparkMurmur3Hash ==
    \E k \in HashInputNumbers :
        HashEnter(HashInputAt(k),
                  [i \in 1 .. ArrayLen(HashInputAt(k).arrays[1]) |-> DefaultSeed])

\* create_hashes(arrays, hashes_buffer) with the caller's buffer
CreateHashes ==
    \E k \in HashInputNumbers :
        \E seeds \in SeedBuffers(ArrayLen(HashInputAt(k).arrays[1])) :
            HashEnter(HashInputAt(k), seeds)

\* one iteration of "for col in arrays"
HashColumnWith(one) ==
    /\ hash' = IF ~one.ok THEN [hash EXCEPT !.pc = "err"]
               ELSE IF hash.traps /\ ColumnReadsHalfWord(hash.arrays[hash.col])
               THEN [hash EXCEPT !.pc = "panic"]
               ELSE [hash EXCEPT !.before = hash.buffer, !.buffer = one.hashes,
                                 !.col = @ + 1]
    /\ UNCHANGED <<ev, cache, evals, call, codec, plan, udf, conc>>

HashColumnStep ==
    /\ hash.pc = "cols"
    /\ hash.col <= Len(hash.arrays)
    /\ HashColumnWith(HashColumn(hash.arrays[hash.col], hash.buffer))

\* Ok(hashes_buffer)
HashFinish ==
    /\ hash.pc = "cols"
    /\ hash.col > Len(hash.arrays)
    /\ hash' = [hash EXCEPT !.pc = "done"]
    /\ UNCHANGED <<ev, cache, evals, call, codec, plan, udf, conc>>

\* the caller's pmod(hash, n) over the final hashes
PmodStep ==
    /\ hash.pc = "done"
    /\ \E n \in PartitionCounts, overflow_checks \in BOOLEAN :
          hash' = [hash EXCEPT !.pc = "parted", !.n = n,
                               !.parts = [i \in DOMAIN hash.buffer |->
                                   pmod(hash.buffer[i], n, overflow_checks)]]
    /\ UNCHANGED <<ev, cache, evals, call, codec, plan, udf, conc>>

HashReturn ==
    /\ hash.pc \in {"done", "parted", "err", "panic"}
    /\ hash' = HashIdle
    /\ UNCHANGED <<ev, cache, evals, call, codec, plan, udf, conc>>

NextHash ==
    \/ SparkMurmur3Hash
    \/ CreateHashes
    \/ HashColumnStep
    \/ HashFinish
    \/ PmodStep
    \/ HashReturn

SpecHash == InitHash /\ [][NextHash]_vars

(***************************************************************************)
(* Properties of the hash.                                                 *)
(***************************************************************************)
HashedFrom(name, seed) ==
    /\ hash.pc = "done"
    /\ hash.input = name
    /\ \A i \in DOMAIN hash.seeds : hash.seeds[i] = seed

\* C7: with seed 42 the hashes are the Murmur3_x86_32 values of the host
\* engine: "", "a", "ab", "abc", "abcd", "abcde" and "hello", "bar", "",
\* U+1F601, U+5929 U+5730 (4-byte little-endian words, then each tail byte
\* sign-extended, finalised with the length); the int8 values 1, 0, -1, 127,
\* -128 as sign-extended 32-bit little-endian words; the int64 values of the
\* tests as 64-bit little-endian words.
Murmur3FixedVectors ==
    /\ HashedFrom("test_murmur3", 42) =>
          hash.buffer = <<142593372, 1485273170, 0 - 97053317, 1322437556,
                          0 - 396302900, 814637928>>
    /\ HashedFrom("test_str", 42) =>
          hash.buffer = <<0 - 1008564952, 0 - 1808790533, 142593372, 885025535,
                          0 - 1899966402>>
    /\ HashedFrom("test_i8", 42) =>
          hash.buffer = <<Mk(56997, 30947), Mk(14239, 44687), Mk(41049, 3645),
                          Mk(17332, 55533), Mk(16938, 4965)>>
    /\ HashedFrom("test_i64", 42) =>
          hash.buffer = <<0 - 1712319331, 0 - 1670924195, 0 - 939490007,
                          0 - 1604625029, 0 - 853646085>>

\* the strings with multi-byte characters have been hashed from seed 42
HashedTestStrings == HashedFrom("test_str", 42)

\* an unsigned comparison of two words, and of two usize values
ULess(x, y) == Hi(x) < Hi(y) \/ (Hi(x) = Hi(y) /\ Lo(x) < Lo(y))

UsizeLess(a, b) == ULess(a[1], b[1]) \/ (a[1] = b[1] /\ ULess(a[2], b[2]))

\* C8: for every hash and every partition count n >= 1, pmod returns an index
\* in [0, n), the non-negative remainder of the hash, read as an i32, modulo n.
PmodIndexInRange ==
    hash.pc = "parted" =>
        \A i \in DOMAIN hash.parts :
            /\ ~hash.parts[i].panic
            /\ UsizeLess(hash.parts[i].index, hash.n)
            /\ (hash.n[1] = 0 /\ hash.n[2] > 0) =>
                  hash.parts[i].index = Usize(0, hash.buffer[i] % hash.n[2])
            /\ ((hash.n[1] # 0 \/ hash.n[2] < 0) /\ hash.buffer[i] >= 0) =>
                  hash.parts[i].index = Usize(0, hash.buffer[i])

\* the column whose hashing the buffer shows last
LastColumn == hash.arrays[hash.col - 1]

ColumnHashed == hash.pc \in {"cols", "done"} /\ hash.col > 1

\* whether the column's value in row i is null
IsNullRow(array, i) ==
    IF array.type = "dictionary"
    THEN ~array.valid[i] \/ ~array.values.valid[array.keys[i] + 1]
    ELSE ~array.valid[i]

\* C9: for every column type and every row, a null value leaves the row's
\* entry of the seed buffer unchanged.
NullLeavesSeedUnchanged ==
    ColumnHashed =>
        \A i \in DOMAIN hash.buffer :
            IsNullRow(LastColumn, i) => hash.buffer[i] = hash.before[i]

\* the fully expanded column of a dictionary column
ExpandDictionary(array) ==
    PrimitiveArray(array.values.type,
                   [i \in DOMAIN array.keys |-> array.values.values[array.keys[i] + 1]],
                   [i \in DOMAIN array.keys |->
                       array.valid[i] /\ array.values.valid[array.keys[i] + 1]])

\* C10: a dictionary column leaves the buffer that its fully expanded column
\* leaves from the same initial seeds.
DictionaryHashesAsExpanded ==
    (ColumnHashed /\ LastColumn.type = "dictionary") =>
        hash.buffer =
            hash_array_primitive(ExpandDictionary(LastColumn), hash.before)

(***************************************************************************)
(* The batch codec.  Arrays are those of the arrow crate the engine is     *)
(* built against (the one with arrow::ffi::from_ffi and Array::to_data):   *)
(* an array holds its buffers itself.  Slicing a primitive array slices    *)
(* its values buffer, slicing a byte, list or map array slices its         *)
(* offsets, slicing a struct slices its children.  A validity bitmap is    *)
(* never copied: a NullBuffer is the whole bitmap and a bit offset into    *)
(* it.  The packed values of a boolean array keep a bit offset as well.    *)
(* Array::offset() is that bit offset for a boolean array and 0 for every  *)
(* other array.                                                            *)
(***************************************************************************)
DataTypeOf(id, tz, fields) == [id |-> id, tz |-> tz, fields |-> fields]

Field(name, data_type, nullable) ==
    [name |-> name, type |-> data_type, nullable |-> nullable]

Leaf(id) == DataTypeOf(id, "", <<>>)

ListOf(field) == DataTypeOf("list", "", <<field>>)

StructOf(fields) == DataTypeOf("struct", "", fields)

\* Map(entries: Struct(keys, values), sorted = false)
MapOf(key_field, value_field) ==
    DataTypeOf("map", "",
               <<Field("entries", StructOf(<<key_field, value_field>>), FALSE)>>)

FixedWidthIds == {"int32", "timestamp"}

OffsetIds == {"utf8", "list", "map"}

\* PT::get_byte_width()
ByteWidth(id) == IF id \in Types32 THEN 4 ELSE 8

NullBuffer(bits, offset) == [has |-> TRUE, bits |-> bits, offset |-> offset]

NoNulls == [has |-> FALSE, bits |-> <<>>, offset |-> 0]

\* values: the values of a fixed-width array, the bits of a boolean array,
\* the bytes of a utf8 array; offsets: the value offsets of a utf8, list or
\* map array; children: the child arrays of a list (1), map (2) or struct
ArrayOf(data_type, len, nulls, offset, values, offsets, children) ==
    [type |-> data_type, len |-> len, nulls |-> nulls, offset |-> offset,
     values |-> values, offsets |-> offsets, children |-> children]

RECURSIVE slice(_, _, _)

\* Array::slice(offset, length)
slice(array, offset, length) ==
    [type |-> array.type,
     len |-> length,
     nulls |-> IF array.nulls.has
               THEN NullBuffer(array.nulls.bits, array.nulls.offset + offset)
               ELSE NoNulls,
     offset |-> IF array.type.id = "boolean" THEN array.offset + offset
                ELSE array.offset,
     values |-> IF array.type.id \in FixedWidthIds
                THEN SubSeq(array.values, offset + 1, offset + length)
                ELSE array.values,
     offsets |-> IF array.type.id \in OffsetIds
                 THEN SubSeq(array.offsets, offset + 1, offset + length + 1)
                 ELSE array.offsets,
     children |-> IF array.type.id = "struct"
                  THEN [c \in DOMAIN array.children |->
                           slice(array.children[c], offset, length)]
                  ELSE array.children]

\* Array::is_valid(i), i from 0
is_valid(array, i) ==
    array.type.id # "null"
    /\ (array.nulls.has => array.nulls.bits[array.nulls.offset + i + 1])

\* array.to_data().nulls(): the NullBuffer of the array, dropped by the
\* ArrayData builder when it counts no null
DataNulls(array) ==
    array.nulls.has /\ \E i \in 0 .. array.len - 1 : ~is_valid(array, i)

\* Array::offset()
ArrayOffset(array) == IF array.type.id = "boolean" THEN array.offset ELSE 0

RecordBatchOf(fields, columns, num_rows) ==
    [fields |-> fields, columns |-> columns, num_rows |-> num_rows]

\* RecordBatch::slice(offset, length)
SliceBatch(batch, offset, length) ==
    RecordBatchOf(batch.fields,
                  [c \in DOMAIN batch.columns |->
                      slice(batch.columns[c], offset, length)],
                  length)

(***************************************************************************)
(* The byte stream.  A read gives the value and the position after it.     *)
(***************************************************************************)
Fail == [ok |-> FALSE, pos |-> 0, v |-> <<>>]

Got(pos, v) == [ok |-> TRUE, pos |-> pos, v |-> v]

RECURSIVE write_len(_)
RECURSIVE read_len(_, _)

\* crate::io::write_len: a varint, 7 bits a byte, least significant first
write_len(n) ==
    IF n < 128 THEN <<n>> ELSE <<128 + (n % 128)>> \o write_len(n \div 128)

\* crate::io::read_len
read_len(input, pos) ==
    IF pos > Len(input) THEN Fail
    ELSE IF input[pos] < 128 THEN Got(pos + 1, input[pos])
    ELSE LET rest == read_len(input, pos + 1)
         IN  IF ~rest.ok THEN Fail
             ELSE Got(rest.pos, (input[pos] - 128) + 128 * rest.v)

\* crate::io::read_bytes_slice: exactly n bytes
read_bytes_slice(input, pos, n) ==
    IF pos + n - 1 > Len(input) THEN Fail
    ELSE Got(pos + n, SubSeq(input, pos, pos + n - 1))

\* the bits packed from the most significant bit of each byte down
PackMsb0(bits) ==
    [b \in 1 .. ((Len(bits) + 7) \div 8) |->
        LET w(i) == IF 8 * (b - 1) + i + 1 <= Len(bits)
                       /\ bits[8 * (b - 1) + i + 1]
                    THEN Pow2(7 - i) ELSE 0
        IN  w(0) + w(1) + w(2) + w(3) + w(4) + w(5) + w(6) + w(7)]

\* bits packed into bytes, bit i of the sequence into bit i % 8 of byte i / 8
\* (set_bit_raw; BitVec<u8, Lsb0>::into_vec)
PackLsb0(bits) ==
    [b \in 1 .. ((Len(bits) + 7) \div 8) |->
        LET w(i) == IF 8 * (b - 1) + i + 1 <= Len(bits)
                       /\ bits[8 * (b - 1) + i + 1]
                    THEN Pow2(i) ELSE 0
        IN  w(0) + w(1) + w(2) + w(3) + w(4) + w(5) + w(6) + w(7)]

\* the bits of a byte buffer (get_bit_raw; BitVec<u8, Lsb0>::from_vec)
UnpackLsb0(bytes) ==
    [j \in 1 .. 8 * Len(bytes) |->
        (bytes[((j - 1) \div 8) + 1] \div Pow2((j - 1) % 8)) % 2 = 1]

\* write_bits_buffer: bits_len bits of the buffer from bit bits_offset on
write_bits_buffer(buffer, bits_offset, bits_len) ==
    PackLsb0([i \in 1 .. bits_len |-> buffer[bits_offset + i]])

\* read_bits_buffer
read_bits_buffer(input, pos, bits_len) ==
    LET buf == read_bytes_slice(input, pos, (bits_len + 7) \div 8)
    IN  IF ~buf.ok THEN Fail ELSE Got(buf.pos, UnpackLsb0(buf.v))

(***************************************************************************)
(* Type descriptors.                                                       *)
(***************************************************************************)
RECURSIVE nameless_data_type(_)

\* nameless_field that keeps the name of the field
nameless_field_named(field) ==
    Field(field.name, nameless_data_type(field.type), field.nullable)

\* nameless_field
nameless_field(field) ==
    Field("", nameless_data_type(field.type), field.nullable)

\* nameless_data_type: List, Map and Struct with nameless fields, others.clone()
nameless_data_type(data_type) ==
    DataTypeOf(data_type.id, data_type.tz,
               [i \in DOMAIN data_type.fields |->
                   nameless_field(data_type.fields[i])])

\* the variants of DataType and the time zones the model serializes
TypeIds ==
    <<"null", "boolean", "int32", "timestamp", "utf8", "large_utf8", "list",
      "map", "struct">>

TimeZones == <<"", "UTC">>

TagOf(names, name) == CHOOSE i \in DOMAIN names : names[i] = name

RECURSIVE PostcardEncode(_)
RECURSIVE PostcardDecode(_, _)
RECURSIVE PostcardDecodeFields(_, _, _)
RECURSIVE PostcardDecodeNamed(_, _, _)

\* the field names of the model and their UTF-8 bytes
FieldNames == <<"", "a", "b", "c", "x", "item", "keys", "values", "entries">>

NameUtf8(name) ==
    CASE name = "" -> <<>>
      [] name = "a" -> <<97>>
      [] name = "b" -> <<98>>
      [] name = "c" -> <<99>>
      [] name = "x" -> <<120>>
      [] name = "item" -> <<105, 116, 101, 109>>
      [] name = "keys" -> <<107, 101, 121, 115>>
      [] name = "values" -> <<118, 97, 108, 117, 101, 115>>
      [] name = "entries" -> <<101, 110, 116, 114, 105, 101, 115>>

\* postcard::to_allocvec of a type: the variant, the time zone of a
\* timestamp, then the fields: name (length, bytes), nullable, type
PostcardEncode(data_type) ==
    <<TagOf(TypeIds, data_type.id), TagOf(TimeZones, data_type.tz),
      Len(data_type.fields)>>
    \o Concat([i \in DOMAIN data_type.fields |->
                  write_len(Len(NameUtf8(data_type.fields[i].name)))
                  \o NameUtf8(data_type.fields[i].name)
                  \o <<IF data_type.fields[i].nullable THEN 1 ELSE 0>>
                  \o PostcardEncode(data_type.fields[i].type)])

\* the place of the name of these UTF-8 bytes in FieldNames, 0 for no name
\* of the model
NameIndex(bytes) ==
    IF \E k \in DOMAIN FieldNames : NameUtf8(FieldNames[k]) = bytes
    THEN CHOOSE k \in DOMAIN FieldNames : NameUtf8(FieldNames[k]) = bytes
    ELSE 0

\* the name of a field at pos: its length, then its bytes
PostcardDecodeName(buf, pos) ==
    LET name_len == read_len(buf, pos)
    IN  IF ~name_len.ok THEN Fail
        ELSE read_bytes_slice(buf, name_len.pos, name_len.v)

\* n fields, the name of the first having been read
PostcardDecodeNamed(buf, name, n) ==
    IF ~name.ok \/ name.pos > Len(buf) THEN Fail
    ELSE IF buf[name.pos] > 1 THEN Fail
    ELSE IF NameIndex(name.v) = 0 THEN Fail
    ELSE LET t == PostcardDecode(buf, name.pos + 1)
             rest == PostcardDecodeFields(buf, t.pos, n - 1)
         IN  IF ~t.ok THEN Fail
             ELSE IF ~rest.ok THEN Fail
             ELSE Got(rest.pos,
                      <<Field(FieldNames[NameIndex(name.v)], t.v,
                              buf[name.pos] = 1)>>
                      \o rest.v)

\* n fields from pos on
PostcardDecodeFields(buf, pos, n) ==
    IF n = 0 THEN Got(pos, <<>>)
    ELSE CHOOSE fields \in {PostcardDecodeNamed(buf, name, n) :
                               name \in {PostcardDecodeName(buf, pos)}} : TRUE

\* postcard::from_bytes
PostcardDecode(buf, pos) ==
    IF pos + 2 > Len(buf) THEN Fail
    ELSE IF buf[pos] \notin DOMAIN TypeIds \/ buf[pos + 1] \notin DOMAIN TimeZones
    THEN Fail
    ELSE LET fields == PostcardDecodeFields(buf, pos + 3, buf[pos + 2])
         IN  IF ~fields.ok THEN Fail
             ELSE Got(fields.pos,
                      DataTypeOf(TypeIds[buf[pos]], TimeZones[buf[pos + 1]],
                                 fields.v))

\* write_data_type
write_data_type(data_type) ==
    LET buf == PostcardEncode(nameless_data_type(data_type))
    IN  write_len(Len(buf)) \o buf

\* read_data_type
read_data_type(input, pos) ==
    LET buf_len == read_len(input, pos)
        buf == read_bytes_slice(input, buf_len.pos, buf_len.v)
    IN  IF ~buf_len.ok THEN Fail
        ELSE IF ~buf.ok THEN Fail
        ELSE CHOOSE r \in
                {IF ~data_type.ok \/ data_type.pos # Len(buf.v) + 1 THEN Fail
                 ELSE Got(buf.pos, data_type.v) :
                    data_type \in {PostcardDecode(bytes, 1) :
                                      bytes \in {buf.v}}} : TRUE

(***************************************************************************)
(* Writing arrays.                                                         *)
(***************************************************************************)
\* the head of every write_*_array: the flag and the validity bits
WriteNullBuffer(array) ==
    IF DataNulls(array)
    THEN write_len(1)
         \o write_bits_buffer(array.nulls.bits, ArrayOffset(array), array.len)
    ELSE write_len(0)

\* for &offset in array.value_offsets().iter().skip(1): write_len(len)
WriteLens(offsets) ==
    Concat([i \in 1 .. Len(offsets) - 1 |->
               write_len(offsets[i + 1] - offsets[i])])

RECURSIVE DataTypeSupported(_)

\* the arms of write_array and read_array other than `other`
DataTypeSupported(data_type) ==
    /\ data_type.id \in
           {"null", "boolean", "utf8", "list", "map", "struct"}
           \cup FixedWidthIds
    /\ \A i \in DOMAIN data_type.fields :
           DataTypeSupported(data_type.fields[i].type)

RECURSIVE write_array(_)

\* write_primitive_array
write_primitive_array(array) ==
    WriteNullBuffer(array)
    \o Concat([i \in 1 .. array.len |->
                  ValueBytes(array.type.id,
                             array.values[ArrayOffset(array) + i])])

\* write_boolean_array
write_boolean_array(array) ==
    WriteNullBuffer(array)
    \o write_bits_buffer(array.values, ArrayOffset(array), array.len)

\* write_bytes_array
write_bytes_array(array) ==
    WriteNullBuffer(array)
    \o WriteLens(array.offsets)
    \o SubSeq(array.values, array.offsets[1] + 1,
              array.offsets[Len(array.offsets)])

\* write_list_array, write_map_array: the lengths, then each child sliced
\* to the entries the offsets cover
write_list_array(array) ==
    LET first_offset == array.offsets[1]
        values_len == array.offsets[Len(array.offsets)] - first_offset
    IN  WriteNullBuffer(array)
        \o WriteLens(array.offsets)
        \o Concat([c \in DOMAIN array.children |->
                      write_array(slice(array.children[c], first_offset,
                                        values_len))])

\* write_struct_array
write_struct_array(array) ==
    WriteNullBuffer(array)
    \o Concat([c \in DOMAIN array.children |-> write_array(array.children[c])])

write_array(array) ==
    CASE array.type.id = "null" -> <<>>
      [] array.type.id = "boolean" -> write_boolean_array(array)
      [] array.type.id \in FixedWidthIds -> write_primitive_array(array)
      [] array.type.id = "utf8" -> write_bytes_array(array)
      [] array.type.id \in {"list", "map"} -> write_list_array(array)
      [] array.type.id = "struct" -> write_struct_array(array)
      [] OTHER -> <<>>

(***************************************************************************)
(* Reading arrays.                                                         *)
(***************************************************************************)
\* the head of every read_*_array
ReadNullBuffer(input, pos, num_rows) ==
    LET has_null_buffer == read_len(input, pos)
        bits == read_bits_buffer(input, has_null_buffer.pos, num_rows)
    IN  IF ~has_null_buffer.ok THEN Fail
        ELSE IF has_null_buffer.v # 1 THEN Got(has_null_buffer.pos, NoNulls)
        ELSE IF ~bits.ok THEN Fail
        ELSE Got(bits.pos, NullBuffer(bits.v, 0))

\* for _ in 0..num_rows: offsets_buffer.push(cur_offset + read_len(input))
ReadOffsets(input, pos, num_rows) ==
    LET r[k \in 0 .. num_rows] ==
            IF k = 0 THEN Got(pos, <<0>>)
            ELSE IF ~r[k - 1].ok THEN Fail
            ELSE LET len == read_len(input, r[k - 1].pos)
                 IN  IF ~len.ok THEN Fail
                     ELSE Got(len.pos,
                              Append(r[k - 1].v,
                                     r[k - 1].v[Len(r[k - 1].v)] + len.v))
    IN  r[num_rows]

\* the value at byte i of a data buffer
ValueFromBytes(id, data, i) ==
    IF ByteWidth(id) = 4 THEN FromLeBytes(data, i)
    ELSE <<FromLeBytes(data, i + 4), FromLeBytes(data, i)>>

\* read_primitive_array: the array has the type PT::DATA_TYPE
read_primitive_array(input, pos, id, num_rows) ==
    LET nulls == ReadNullBuffer(input, pos, num_rows)
        data == read_bytes_slice(input, nulls.pos, num_rows * ByteWidth(id))
    IN  IF ~nulls.ok THEN Fail
        ELSE IF ~data.ok THEN Fail
        ELSE Got(data.pos,
                 ArrayOf(Leaf(id), num_rows, nulls.v, 0,
                         [i \in 1 .. num_rows |->
                             ValueFromBytes(id, data.v,
                                            ByteWidth(id) * (i - 1) + 1)],
                         <<>>, <<>>))

\* read_boolean_array
read_boolean_array(input, pos, num_rows) ==
    LET nulls == ReadNullBuffer(input, pos, num_rows)
        data == read_bits_buffer(input, nulls.pos, num_rows)
    IN  IF ~nulls.ok THEN Fail
        ELSE IF ~data.ok THEN Fail
        ELSE Got(data.pos,
                 ArrayOf(Leaf("boolean"), num_rows, nulls.v, 0, data.v,
                         <<>>, <<>>))

\* read_bytes_array
read_bytes_array(input, pos, data_type, num_rows) ==
    LET nulls == ReadNullBuffer(input, pos, num_rows)
        offsets == ReadOffsets(input, nulls.pos, num_rows)
        data == read_bytes_slice(input, offsets.pos,
                                 offsets.v[Len(offsets.v)])
    IN  IF ~nulls.ok THEN Fail
        ELSE IF ~offsets.ok THEN Fail
        ELSE IF ~data.ok THEN Fail
        ELSE Got(data.pos,
                 ArrayOf(data_type, num_rows, nulls.v, 0, data.v, offsets.v,
                         <<>>))

RECURSIVE read_array(_, _, _, _)
RECURSIVE ReadChildren(_, _, _, _)

\* fields.iter().map(|f| read_array(input, f.data_type(), num_rows)), and
\* ArrayData::try_new over them: a child has the type of its field
ReadChildren(input, pos, fields, num_rows) ==
    IF fields = <<>> THEN Got(pos, <<>>)
    ELSE LET child == read_array(input, pos, fields[1].type, num_rows)
             rest == ReadChildren(input, child.pos, Tail(fields), num_rows)
         IN  IF ~child.ok THEN Fail
             ELSE IF ~rest.ok THEN Fail
             ELSE IF child.v.type # fields[1].type THEN Fail
             ELSE Got(rest.pos, <<child.v>> \o rest.v)

\* read_list_array; read_map_array with the fields of the entries
read_list_array(input, pos, data_type, num_rows) ==
    LET nulls == ReadNullBuffer(input, pos, num_rows)
        offsets == ReadOffsets(input, nulls.pos, num_rows)
        values == ReadChildren(input, offsets.pos,
                               IF data_type.id = "map"
                               THEN data_type.fields[1].type.fields
                               ELSE data_type.fields,
                               offsets.v[Len(offsets.v)])
    IN  IF ~nulls.ok THEN Fail
        ELSE IF ~offsets.ok THEN Fail
        ELSE IF ~values.ok THEN Fail
        ELSE Got(values.pos,
                 ArrayOf(data_type, num_rows, nulls.v, 0, <<>>, offsets.v,
                         values.v))

\* read_struct_array
read_struct_array(input, pos, data_type, num_rows) ==
    LET nulls == ReadNullBuffer(input, pos, num_rows)
        child_arrays == ReadChildren(input, nulls.pos, data_type.fields,
                                     num_rows)
    IN  IF ~nulls.ok THEN Fail
        ELSE IF ~child_arrays.ok THEN Fail
        ELSE Got(child_arrays.pos,
                 ArrayOf(data_type, num_rows, nulls.v, 0, <<>>, <<>>,
                         child_arrays.v))

read_array(input, pos, data_type, num_rows) ==
    CASE data_type.id = "null" ->
            Got(pos, ArrayOf(Leaf("null"), num_rows, NoNulls, 0, <<>>, <<>>,
                             <<>>))
      [] data_type.id = "boolean" -> read_boolean_array(input, pos, num_rows)
      [] data_type.id \in FixedWidthIds ->
            read_primitive_array(input, pos, data_type.id, num_rows)
      [] data_type.id = "utf8" ->
            read_bytes_array(input, pos, data_type, num_rows)
      [] data_type.id \in {"list", "map"} ->
            read_list_array(input, pos, data_type, num_rows)
      [] data_type.id = "struct" ->
            read_struct_array(input, pos, data_type, num_rows)
      [] OTHER -> Fail

(***************************************************************************)
(* write_batch and read_batch.                                             *)
(***************************************************************************)
\* the frame of the stream compressor: the magic number, then the payload
ZstdMagic == <<40, 181, 47, 253>>

\* zstd::Encoder::new(output, 1).auto_finish()
ZstdEncode(payload) == ZstdMagic \o payload

\* zstd::Decoder::new(input)
ZstdDecode(input) ==
    IF Len(input) >= 4 /\ SubSeq(input, 1, 4) = ZstdMagic
    THEN Got(1, SubSeq(input, 5, Len(input)))
    ELSE Fail

\* what write_batch writes through `output` before compression
WritePayload(batch) ==
    write_len(Len(batch.columns))
    \o write_len(batch.num_rows)
    \o Concat([c \in DOMAIN batch.fields |->
                  write_data_type(batch.fields[c].type)])
    \o PackLsb0([c \in DOMAIN batch.fields |-> batch.fields[c].nullable])
    \o Concat([c \in DOMAIN batch.columns |-> write_array(batch.columns[c])])

\* write_batch: Err on a type write_array does not write, else the bytes of
\* the sink and the size reported through uncompressed_size
write_batch(batch, compress, sized) ==
    IF \E c \in DOMAIN batch.columns :
           ~DataTypeSupported(batch.columns[c].type)
    THEN [ok |-> FALSE, sink |-> <<>>, size |-> 0]
    ELSE [ok |-> TRUE,
          sink |-> IF compress THEN ZstdEncode(WritePayload(batch))
                   ELSE WritePayload(batch),
          size |-> IF sized THEN Len(WritePayload(batch)) ELSE 0]

\* for _ in 0..num_columns: read_data_type
ReadDataTypes(input, pos, num_columns) ==
    LET r[k \in 0 .. num_columns] ==
            IF k = 0 THEN Got(pos, <<>>)
            ELSE IF ~r[k - 1].ok THEN Fail
            ELSE LET data_type == read_data_type(input, r[k - 1].pos)
                 IN  IF ~data_type.ok THEN Fail
                     ELSE Got(data_type.pos, Append(r[k - 1].v, data_type.v))
    IN  r[num_columns]

\* (0..num_columns).map(|i| read_array(input, &data_types[i], num_rows))
ReadColumns(input, pos, data_types, num_rows) ==
    LET r[k \in 0 .. Len(data_types)] ==
            IF k = 0 THEN Got(pos, <<>>)
            ELSE IF ~r[k - 1].ok THEN Fail
            ELSE LET column == read_array(input, r[k - 1].pos, data_types[k],
                                          num_rows)
                 IN  IF ~column.ok THEN Fail
                     ELSE Got(column.pos, Append(r[k - 1].v, column.v))
    IN  r[Len(data_types)]

EmptyBatch == RecordBatchOf(<<>>, <<>>, 0)

ReadErr == [ok |-> FALSE, batch |-> EmptyBatch]

\* RecordBatch::try_new_with_options: every column has the type of its field
\* and the row count of the batch, and no null under a non-nullable field
TryNewBatch(fields, columns, num_rows) ==
    IF \A c \in DOMAIN columns :
           /\ columns[c].type = fields[c].type
           /\ columns[c].len = num_rows
           /\ fields[c].nullable \/ ~DataNulls(columns[c])
    THEN [ok |-> TRUE, batch |-> RecordBatchOf(fields, columns, num_rows)]
    ELSE ReadErr

\* read_batch
read_batch(sink, compress) ==
    LET stream == IF compress THEN ZstdDecode(sink) ELSE Got(1, sink)
        input == stream.v
        num_columns == read_len(input, 1)
        num_rows == read_len(input, num_columns.pos)
        data_types == ReadDataTypes(input, num_rows.pos, num_columns.v)
        nullables_bytes ==
            read_bytes_slice(input, data_types.pos, (num_columns.v + 7) \div 8)
        nullables == UnpackLsb0(nullables_bytes.v)
        columns == ReadColumns(input, nullables_bytes.pos, data_types.v,
                               num_rows.v)
    IN  IF ~stream.ok THEN ReadErr
        ELSE IF ~num_columns.ok THEN ReadErr
        ELSE IF ~num_rows.ok THEN ReadErr
        ELSE IF ~data_types.ok THEN ReadErr
        ELSE IF ~nullables_bytes.ok THEN ReadErr
        ELSE IF ~columns.ok THEN ReadErr
        ELSE TryNewBatch([i \in DOMAIN data_types.v |->
                             Field("", data_types.v[i], nullables[i])],
                         columns.v, num_rows.v)

(***************************************************************************)
(* The batches written: columns of three rows, and their slices.           *)
(***************************************************************************)
\* 1, null, 3
CodecInt32Nulls ==
    ArrayOf(Leaf("int32"), 3, NullBuffer(<<TRUE, FALSE, TRUE>>, 0), 0,
            <<1, 0, 3>>, <<>>, <<>>)

\* 5, 6, 7
CodecInt32Plain ==
    ArrayOf(Leaf("int32"), 3, NoNulls, 0, <<5, 6, 7>>, <<>>, <<>>)

\* true, null, false
CodecBoolean ==
    ArrayOf(Leaf("boolean"), 3, NullBuffer(<<TRUE, FALSE, TRUE>>, 0), 0,
            <<TRUE, FALSE, FALSE>>, <<>>, <<>>)

\* "a", "bc", null
CodecUtf8 ==
    ArrayOf(Leaf("utf8"), 3, NullBuffer(<<TRUE, TRUE, FALSE>>, 0), 0,
            <<97, 98, 99>>, <<0, 1, 3, 3>>, <<>>)

\* three timestamps of the time zone
CodecTimestamp(tz) ==
    ArrayOf(DataTypeOf("timestamp", tz, <<>>), 3, NoNulls, 0,
            << <<0, 1>>, <<0, 0 - 2>>, <<1, 3>> >>, <<>>, <<>>)

\* [1, null], null, [3]
CodecList ==
    ArrayOf(ListOf(Field("item", Leaf("int32"), TRUE)), 3,
            NullBuffer(<<TRUE, FALSE, TRUE>>, 0), 0, <<>>, <<0, 2, 2, 3>>,
            <<CodecInt32Nulls>>)

\* {1, true}, {null, null}, null
CodecStruct ==
    ArrayOf(StructOf(<<Field("a", Leaf("int32"), TRUE),
                       Field("b", Leaf("boolean"), TRUE)>>), 3,
            NullBuffer(<<TRUE, TRUE, FALSE>>, 0), 0, <<>>, <<>>,
            <<CodecInt32Nulls, CodecBoolean>>)

\* {5: "a"}, null, {6: "bc", 7: null}
CodecMap ==
    ArrayOf(MapOf(Field("keys", Leaf("int32"), FALSE),
                  Field("values", Leaf("utf8"), TRUE)), 3,
            NullBuffer(<<TRUE, FALSE, TRUE>>, 0), 0, <<>>, <<0, 1, 1, 3>>,
            <<CodecInt32Plain, CodecUtf8>>)

CodecNull == ArrayOf(Leaf("null"), 3, NoNulls, 0, <<>>, <<>>, <<>>)

\* a type write_array does not write
CodecLargeUtf8 ==
    ArrayOf(Leaf("large_utf8"), 3, NoNulls, 0, <<97>>, <<0, 1, 1, 1>>, <<>>)

\* RecordBatch::try_from_iter_with_nullable
BatchOfColumns(columns, nullables) ==
    RecordBatchOf([c \in DOMAIN columns |->
                      Field("c", columns[c].type, nullables[c])],
                  columns, 3)

CodecBatches ==
    << BatchOfColumns(<<CodecInt32Nulls>>, <<TRUE>>),
       BatchOfColumns(<<CodecInt32Plain>>, <<FALSE>>),
       BatchOfColumns(<<CodecBoolean>>, <<TRUE>>),
       BatchOfColumns(<<CodecUtf8>>, <<TRUE>>),
       BatchOfColumns(<<CodecTimestamp("")>>, <<FALSE>>),
       BatchOfColumns(<<CodecTimestamp("UTC")>>, <<FALSE>>),
       BatchOfColumns(<<CodecList>>, <<TRUE>>),
       BatchOfColumns(<<CodecStruct>>, <<TRUE>>),
       BatchOfColumns(<<CodecMap>>, <<TRUE>>),
       BatchOfColumns(<<CodecNull>>, <<TRUE>>),
       BatchOfColumns(<<CodecInt32Plain, CodecUtf8, CodecBoolean>>,
                      <<FALSE, TRUE, TRUE>>),
       BatchOfColumns(<<>>, <<>>),
       BatchOfColumns(<<CodecLargeUtf8>>, <<TRUE>>),
       BatchOfColumns([c \in 1 .. 9 |-> CodecInt32Plain],
                      <<TRUE, FALSE, FALSE, TRUE, FALSE, FALSE, FALSE, FALSE,
                        TRUE>>) >>

\* batch.slice(offset, length): <<0, 3>> is the whole batch
CodecSlices == {<<0, 3>>, <<0, 2>>, <<1, 2>>, <<1, 1>>, <<2, 1>>, <<3, 0>>}

(***************************************************************************)
(* The codec as a state machine: a batch is written to a sink, and the     *)
(* sink is read back with the same compress flag.                          *)
(***************************************************************************)
CodecIdle ==
    [pc |-> "idle", input |-> 0, at |-> <<0, 0>>, batch |-> EmptyBatch,
     compress |-> FALSE, sink |-> <<>>, size |-> 0, result |-> ReadErr]

InitCodec ==
    /\ ev = TryNew(<<>>, <<>>, <<>>)
    /\ cache = <<>>
    /\ evals = <<>>
    /\ call = IdleCall
    /\ codec = CodecIdle
    /\ hash = HashOff
    /\ plan = PlanOff
    /\ udf = UdfOff
    /\ conc = ConcOff

WriteBatchOf(k, at, compress, sized) ==
    LET batch == SliceBatch(CodecBatches[k], at[1], at[2])
        written == write_batch(batch, compress, sized)
    IN  /\ codec.pc = "idle"
        /\ codec' = [CodecIdle EXCEPT
                        !.pc = IF written.ok THEN "written" ELSE "failed",
                        !.input = k, !.at = at, !.batch = batch,
                        !.compress = compress, !.sink = written.sink,
                        !.size = written.size]
        /\ UNCHANGED <<ev, cache, evals, call, hash, plan, udf, conc>>

\* write_batch(&batch, &mut sink, compress, uncompressed_size)
WriteBatch ==
    \E k \in DOMAIN CodecBatches, at \in CodecSlices :
        \E compress \in BOOLEAN, sized \in BOOLEAN :
            WriteBatchOf(k, at, compress, sized)

\* read_batch(&mut sink, compress)
ReadBatch ==
    /\ codec.pc = "written"
    /\ codec' = [codec EXCEPT !.pc = "read",
                              !.result = read_batch(codec.sink, codec.compress)]
    /\ UNCHANGED <<ev, cache, evals, call, hash, plan, udf, conc>>

CodecReturn ==
    /\ codec.pc \in {"failed", "read"}
    /\ codec' = CodecIdle
    /\ UNCHANGED <<ev, cache, evals, call, hash, plan, udf, conc>>

NextCodec ==
    \/ WriteBatch
    \/ ReadBatch
    \/ CodecReturn

SpecCodec == InitCodec /\ [][NextCodec]_vars

(***************************************************************************)
(* Properties of the codec.                                                *)
(***************************************************************************)
RECURSIVE LogicalValue(_, _)

\* row i (from 0) of an array: <<>> for null, else <<the value>>, a value
\* being bytes, or the rows of a list, the entries of a map, the fields of
\* a struct
LogicalValue(array, i) ==
    IF ~is_valid(array, i) THEN <<>>
    ELSE << CASE array.type.id = "boolean" ->
                    <<IF array.values[array.offset + i + 1] THEN 1 ELSE 0>>
              [] array.type.id \in FixedWidthIds ->
                    ValueBytes(array.type.id, array.values[i + 1])
              [] array.type.id = "utf8" ->
                    SubSeq(array.values, array.offsets[i + 1] + 1,
                           array.offsets[i + 2])
              [] array.type.id = "list" ->
                    [j \in 1 .. (array.offsets[i + 2] - array.offsets[i + 1]) |->
                        LogicalValue(array.children[1],
                                     array.offsets[i + 1] + j - 1)]
              [] array.type.id = "map" ->
                    [j \in 1 .. (array.offsets[i + 2] - array.offsets[i + 1]) |->
                        <<LogicalValue(array.children[1],
                                       array.offsets[i + 1] + j - 1),
                          LogicalValue(array.children[2],
                                       array.offsets[i + 1] + j - 1)>>]
              [] array.type.id = "struct" ->
                    [c \in DOMAIN array.children |->
                        LogicalValue(array.children[c], i)]
              [] OTHER -> <<>> >>

LogicalRows(array) == [i \in 1 .. array.len |-> LogicalValue(array, i - 1)]

\* C1: read_batch of the bytes of write_batch(b), with the same compress
\* flag, returns a batch of b's row count, of b's column types and
\* nullability with the names dropped, and of b's values and nulls in every
\* row; b may be a slice of another batch.
ReadReturnsTheBatchWritten ==
    codec.pc = "read" =>
        /\ codec.result.ok
        /\ codec.result.batch.num_rows = codec.batch.num_rows
        /\ Len(codec.result.batch.columns) = Len(codec.batch.columns)
        /\ \A c \in DOMAIN codec.batch.columns :
              /\ codec.result.batch.fields[c]
                    = nameless_field(codec.batch.fields[c])
              /\ codec.result.batch.columns[c].len = codec.batch.num_rows
              /\ LogicalRows(codec.result.batch.columns[c])
                    = LogicalRows(codec.batch.columns[c])

(***************************************************************************)
(* The plan and expression materializer (from_proto.rs).  A serialized     *)
(* node is a tuple whose first element is its discriminant; an optional    *)
(* message field is Absent or Present(x).  A construction returns Ok(v),   *)
(* Err(kind) or panics.                                                    *)
(***************************************************************************)
Absent     == <<>>
Present(x) == <<x>>

PlanOk(v)     == [tag |-> "Ok", v |-> v]
PlanErr(kind) == [tag |-> "Err", v |-> <<kind>>]
PlanPanic     == [tag |-> "Panic", v |-> <<>>]

\* iter().map(f).collect::<Result<Vec<_>, _>>(): the elements in order up to
\* the first that is not Ok
Collect(rs) ==
    IF \A i \in DOMAIN rs : rs[i].tag = "Ok"
    THEN PlanOk([i \in DOMAIN rs |-> rs[i].v])
    ELSE rs[CHOOSE i \in DOMAIN rs :
               /\ rs[i].tag # "Ok"
               /\ \A j \in 1 .. (i - 1) : rs[j].tag = "Ok"]

\* serialized expression nodes
PbColumn(name, index)  == <<"Column", name, index>>
PbBoundReference(index) == <<"BoundReference", index>>
PbLiteral              == <<"Literal">>
PbNotExpr(expr)        == <<"NotExpr", expr>>
PbBinaryExpr(l, r)     == <<"BinaryExpr", l, r>>
PbAggExpr              == <<"AggExpr">>
PbNoExprType           == <<"NoExprType">>

\* physical expressions
BoundReferenceName == "__bound_reference__"
Column(name, index) == <<"Column", name, index>>
Literal             == <<"Literal">>
NotExpr(arg)        == <<"NotExpr", arg>>
BinaryExpr(l, r)    == <<"BinaryExpr", l, r>>

RECURSIVE try_parse_physical_expr(_)
try_parse_physical_expr_box_required(proto) ==
    IF proto = Absent THEN PlanErr("proto_error")
    ELSE try_parse_physical_expr(proto[1])

try_parse_physical_expr(expr) ==
    CASE expr[1] = "NoExprType" -> PlanErr("proto_error")
      [] expr[1] = "Column" -> PlanOk(Column(expr[2], expr[3]))
      [] expr[1] = "Literal" -> PlanOk(Literal)
      [] expr[1] = "BoundReference" -> PlanOk(Column(BoundReferenceName, expr[2]))
      [] expr[1] = "BinaryExpr" ->
            LET l == try_parse_physical_expr_box_required(expr[2])
                r == try_parse_physical_expr_box_required(expr[3])
            IN  IF l.tag # "Ok" THEN l
                ELSE IF r.tag # "Ok" THEN r
                ELSE PlanOk(BinaryExpr(l.v, r.v))
      [] expr[1] = "AggExpr" -> PlanErr("General")
      [] expr[1] = "NotExpr" ->
            LET e == try_parse_physical_expr_box_required(expr[2])
            IN  IF e.tag # "Ok" THEN e ELSE PlanOk(NotExpr(e.v))

\* Schema::index_of: the first field of that name
IndexOfName(schema, name) ==
    CHOOSE i \in DOMAIN schema :
        schema[i] = name /\ \A j \in 1 .. (i - 1) : schema[j] # name

\* Column::new_with_schema resolving a name to the last field of that name
new_with_schema_last(name, schema) ==
    IF \E i \in DOMAIN schema : schema[i] = name
    THEN PlanOk(Column(name,
                       (CHOOSE i \in DOMAIN schema :
                           schema[i] = name
                           /\ \A j \in (i + 1) .. Len(schema) : schema[j] # name)
                       - 1))
    ELSE PlanErr("ArrowError")

\* Column::new_with_schema
new_with_schema(name, schema) ==
    IF \E i \in DOMAIN schema : schema[i] = name
    THEN PlanOk(Column(name, IndexOfName(schema, name) - 1))
    ELSE PlanErr("ArrowError")

ExprChildren(expr) ==
    CASE expr[1] = "NotExpr" -> <<expr[2]>>
      [] expr[1] = "BinaryExpr" -> <<expr[2], expr[3]>>
      [] OTHER -> <<>>

ExprWithNewChildren(expr, new_children) ==
    CASE expr[1] = "NotExpr" -> NotExpr(new_children[1])
      [] expr[1] = "BinaryExpr" -> BinaryExpr(new_children[1], new_children[2])
      [] OTHER -> expr

RECURSIVE bind(_, _)
bind(expr_in, input_schema) ==
    IF expr_in[1] = "Column"
    THEN IF expr_in[2] = BoundReferenceName
         THEN PlanOk(expr_in)
         ELSE new_with_schema(expr_in[2], input_schema)
    ELSE LET ch == ExprChildren(expr_in)
             new_children == Collect([i \in DOMAIN ch |-> bind(ch[i], input_schema)])
         IN  IF new_children.tag # "Ok" THEN new_children
             ELSE PlanOk(ExprWithNewChildren(expr_in, new_children.v))

\* bind(try_parse_physical_expr(expr, &input.schema())?, &input.schema())?
ParseAndBind(expr, input_schema) ==
    LET e == try_parse_physical_expr(expr)
    IN  IF e.tag # "Ok" THEN e ELSE bind(e.v, input_schema)

\* serialized plan nodes
PbProjection(input, expr, expr_name) == <<"Projection", input, expr, expr_name>>
PbFilter(input, expr)                == <<"Filter", input, expr>>
PbParquetScan(base_conf, pruning_predicates) ==
    <<"ParquetScan", base_conf, pruning_predicates>>
PbIpcReader(schema, mode)            == <<"IpcReader", schema, mode>>
PbNoPlanType                         == <<"NoPlanType">>
PbFileScanExecConf(schema, file_group) == <<"FileScanExecConf", schema, file_group>>

\* protobuf::IpcReadMode::from_i32 knows these values
IpcReadModes == {0, 1, 2}

\* execution plans
ProjectExec(exprs, input)      == <<"ProjectExec", exprs, input>>
FilterExec(predicates, input)  == <<"FilterExec", predicates, input>>
ParquetExec(conf, predicate)   == <<"ParquetExec", conf, predicate>>
IpcReaderExec(schema, mode)    == <<"IpcReaderExec", schema, mode>>
FileScanConfig(file_schema)    == <<"FileScanConfig", file_schema>>

\* ExecutionPlan::schema
RECURSIVE PlanSchema(_)
PlanSchema(p) ==
    CASE p[1] = "ProjectExec" -> [i \in DOMAIN p[2] |-> p[2][i][2]]
      [] p[1] = "FilterExec" -> PlanSchema(p[3])
      [] p[1] = "ParquetExec" -> p[2][2]
      [] p[1] = "IpcReaderExec" -> p[2]

\* TryInto<FileScanConfig> for &protobuf::FileScanExecConf
FileScanConfigOf(conf) ==
    IF conf[2] = Absent THEN PlanErr("proto_error")
    ELSE IF conf[3] = Absent THEN PlanPanic
    ELSE PlanOk(FileScanConfig(conf[2][1]))

\* the pruning predicates that parse, folded into one conjunction from lit(true)
RECURSIVE FoldPredicates(_, _)
FoldPredicates(predicates, acc) ==
    IF predicates = <<>> THEN acc
    ELSE LET b == try_parse_physical_expr(Head(predicates))
         IN  FoldPredicates(Tail(predicates),
                            IF b.tag = "Ok" THEN BinaryExpr(acc, b.v) ELSE acc)

Min(a, b) == IF a < b THEN a ELSE b

RECURSIVE try_into(_)
\* convert_box_required!(node.input)
ConvertInput(input) ==
    IF input = Absent THEN PlanErr("proto_error") ELSE try_into(input[1])

try_into(node) ==
    CASE node[1] = "NoPlanType" -> PlanErr("proto_error")
      [] node[1] = "Projection" ->
            LET input == ConvertInput(node[2])
                n     == Min(Len(node[3]), Len(node[4]))
                exprs == Collect([i \in 1 .. n |->
                            LET e == ParseAndBind(node[3][i], PlanSchema(input.v))
                            IN  IF e.tag = "Ok" THEN PlanOk(<<e.v, node[4][i]>>) ELSE e])
            IN  IF input.tag # "Ok" THEN input
                ELSE IF exprs.tag # "Ok" THEN exprs
                ELSE PlanOk(ProjectExec(exprs.v, input.v))
      [] node[1] = "Filter" ->
            LET input == ConvertInput(node[2])
                predicates == Collect([i \in DOMAIN node[3] |->
                                 ParseAndBind(node[3][i], PlanSchema(input.v))])
            IN  IF input.tag # "Ok" THEN input
                ELSE IF predicates.tag # "Ok" THEN predicates
                ELSE PlanOk(FilterExec(predicates.v, input.v))
      [] node[1] = "ParquetScan" ->
            IF node[2] = Absent THEN PlanPanic
            ELSE LET conf == FileScanConfigOf(node[2][1])
                 IN  IF conf.tag # "Ok" THEN conf
                     ELSE PlanOk(ParquetExec(conf.v, FoldPredicates(node[3], Literal)))
      [] node[1] = "IpcReader" ->
            IF node[2] = Absent THEN PlanErr("proto_error")
            ELSE IF node[3] \notin IpcReadModes THEN PlanPanic
            ELSE PlanOk(IpcReaderExec(node[2][1], node[3]))

(***************************************************************************)
(* The serialized expressions and plans materialized.                      *)
(***************************************************************************)
PlanInputSchema == <<"a", "b">>

\* "b" carries an index that is not its position, "c" is in no schema
PbLeafExprs ==
    << PbColumn("a", 0), PbColumn("b", 0), PbColumn("c", 1),
       PbBoundReference(1), PbLiteral, PbNoExprType, PbAggExpr >>

PbExprs ==
    PbLeafExprs \o
    << PbNotExpr(Absent),
       PbNotExpr(Present(PbColumn("c", 1))),
       PbNotExpr(Present(PbColumn("b", 0))),
       PbBinaryExpr(Present(PbColumn("a", 0)), Present(PbColumn("c", 1))),
       PbBinaryExpr(Present(PbColumn("b", 0)), Present(PbBoundReference(1))),
       PbBinaryExpr(Present(PbNoExprType), Present(PbColumn("c", 1))),
       PbBinaryExpr(Present(PbLiteral), Absent) >>

\* lists of at most two serialized expressions
PbExprLists ==
    <<  <<>>  >> \o [i \in DOMAIN PbExprs |-> <<PbExprs[i]>>]
    \o [i \in DOMAIN PbLeafExprs |-> <<PbColumn("a", 0), PbLeafExprs[i]>>]
    \o [i \in DOMAIN PbLeafExprs |-> <<PbLeafExprs[i], PbColumn("b", 0)>>]

PbConfs ==
    << Present(PbFileScanExecConf(Present(PlanInputSchema), Present(<<>>))),
       Present(PbFileScanExecConf(Absent, Present(<<>>))),
       Present(PbFileScanExecConf(Present(PlanInputSchema), Absent)),
       Absent >>

PbLeafPlans ==
    << PbIpcReader(Present(PlanInputSchema), 0),
       PbIpcReader(Present(PlanInputSchema), 2),
       PbIpcReader(Present(PlanInputSchema), 7),
       PbIpcReader(Absent, 0),
       PbNoPlanType >>
    \o [i \in DOMAIN PbConfs |-> PbParquetScan(PbConfs[i], <<>>)]

PbInputs ==
    << Absent >> \o [i \in DOMAIN PbLeafPlans |-> Present(PbLeafPlans[i])]
    \o << Present(PbProjection(Present(PbLeafPlans[1]),
                               <<PbColumn("a", 0)>>, <<"b">>)),
          Present(PbFilter(Present(PbLeafPlans[1]), <<PbColumn("c", 1)>>)) >>

ExprNames == << <<>>, <<"x">>, <<"x", "y">> >>

PlanIdle ==
    [pc |-> "idle", node |-> PbNoPlanType, expr |-> Literal,
     schema |-> <<>>, result |-> PlanErr("none")]

InitPlan ==
    /\ ev = TryNew(<<>>, <<>>, <<>>)
    /\ cache = <<>>
    /\ evals = <<>>
    /\ call = IdleCall
    /\ codec = CodecOff
    /\ hash = HashOff
    /\ plan = PlanIdle
    /\ udf = UdfOff
    /\ conc = ConcOff

\* (&node).try_into()
ConvertPlan(node) ==
    /\ plan.pc = "idle"
    /\ plan' = [plan EXCEPT !.pc = "done", !.node = node, !.result = try_into(node)]
    /\ UNCHANGED <<ev, cache, evals, call, codec, hash, udf, conc>>

ConvertLeaf == \E i \in DOMAIN PbLeafPlans : ConvertPlan(PbLeafPlans[i])

ConvertFilter ==
    \E i \in DOMAIN PbInputs, l \in DOMAIN PbExprLists :
        ConvertPlan(PbFilter(PbInputs[i], PbExprLists[l]))

ConvertProjection ==
    \E i \in DOMAIN PbInputs, l \in DOMAIN PbExprLists, n \in DOMAIN ExprNames :
        ConvertPlan(PbProjection(PbInputs[i], PbExprLists[l], ExprNames[n]))

ConvertParquetScan ==
    \E c \in DOMAIN PbConfs, l \in DOMAIN PbExprLists :
        ConvertPlan(PbParquetScan(PbConfs[c], PbExprLists[l]))

\* bind(expr, &schema) of a parsed expression
BindExpr ==
    /\ plan.pc = "idle"
    /\ \E i \in DOMAIN PbExprs, schema \in {PlanInputSchema, <<"b">>, <<"b", "a", "b">>,
                                          <<"a", "b", "b">>} :
          LET e == try_parse_physical_expr(PbExprs[i])
          IN  /\ e.tag = "Ok"
              /\ plan' = [plan EXCEPT !.pc = "bound", !.expr = e.v,
                                      !.schema = schema,
                                      !.result = bind(e.v, schema)]
    /\ UNCHANGED <<ev, cache, evals, call, codec, hash, udf, conc>>

PlanReturn ==
    /\ plan.pc \in {"done", "bound"}
    /\ plan.result.tag # "Panic"
    /\ plan' = PlanIdle
    /\ UNCHANGED <<ev, cache, evals, call, codec, hash, udf, conc>>

NextPlan ==
    \/ ConvertLeaf
    \/ ConvertFilter
    \/ ConvertProjection
    \/ ConvertParquetScan
    \/ BindExpr
    \/ PlanReturn

SpecPlan == InitPlan /\ [][NextPlan]_vars

(***************************************************************************)
(* Properties of the materializer.                                         *)
(***************************************************************************)
\* the names of the named Column nodes of a physical expression
RECURSIVE NamedColumns(_)
NamedColumns(expr) ==
    IF expr[1] = "Column"
    THEN IF expr[2] = BoundReferenceName THEN {} ELSE {expr[2]}
    ELSE LET ch == ExprChildren(expr)
         IN  UNION {NamedColumns(ch[i]) : i \in DOMAIN ch}

ExprNodes == {"Projection", "Filter", "ParquetScan"}

\* the schema the expressions of a plan node are read against, once the
\* node's input (or scan configuration) has been converted
ExprSchemaOf(node) ==
    IF node[1] = "ParquetScan"
    THEN IF node[2] = Absent THEN PlanPanic
         ELSE LET conf == FileScanConfigOf(node[2][1])
              IN  IF conf.tag = "Ok" THEN PlanOk(conf.v[2]) ELSE conf
    ELSE LET input == ConvertInput(node[2])
         IN  IF input.tag = "Ok" THEN PlanOk(PlanSchema(input.v)) ELSE input

\* an expression of the node names a column its schema does not have
NodeLacksColumn(node) ==
    /\ node[1] \in ExprNodes
    /\ ExprSchemaOf(node).tag = "Ok"
    /\ \E i \in DOMAIN node[3] :
          LET e == try_parse_physical_expr(node[3][i])
          IN  /\ e.tag = "Ok"
              /\ ~(NamedColumns(e.v) \subseteq Range(ExprSchemaOf(node).v))

\* C11: binding an expression, or converting a plan node one of whose
\* expressions names a column that the schema it is read against lacks,
\* returns an error value: no panic, and no plan that carries the unresolved
\* column or has lost the expression.
BindingFailureIsAnError ==
    /\ (plan.pc = "bound" /\ ~(NamedColumns(plan.expr) \subseteq Range(plan.schema)))
          => plan.result.tag = "Err"
    /\ (plan.pc = "done" /\ NodeLacksColumn(plan.node))
          => plan.result.tag = "Err"

\* a serialized expression with an absent required field or no expression type
RECURSIVE ExprMalformed(_)
ExprMalformed(expr) ==
    CASE expr[1] = "NoExprType" -> TRUE
      [] expr[1] = "NotExpr" ->
            expr[2] = Absent \/ ExprMalformed(expr[2][1])
      [] expr[1] = "BinaryExpr" ->
            \/ expr[2] = Absent \/ expr[3] = Absent
            \/ ExprMalformed(expr[2][1]) \/ ExprMalformed(expr[3][1])
      [] OTHER -> FALSE

\* a serialized plan with an absent required field or an unrecognized
\* discriminant, in the node, in its input or in one of its expressions
RECURSIVE PlanMalformed(_)
PlanMalformed(node) ==
    CASE node[1] = "NoPlanType" -> TRUE
      [] node[1] = "IpcReader" -> node[2] = Absent \/ node[3] \notin IpcReadModes
      [] node[1] = "ParquetScan" ->
            \/ node[2] = Absent
            \/ node[2][1][2] = Absent
            \/ node[2][1][3] = Absent
            \/ \E i \in DOMAIN node[3] : ExprMalformed(node[3][i])
      [] OTHER ->
            \/ node[2] = Absent
            \/ PlanMalformed(node[2][1])
            \/ \E i \in DOMAIN node[3] : ExprMalformed(node[3][i])

\* C12: converting a serialized plan in which a required field is absent or
\* a discriminant is unrecognized, in the plan or in any of its expressions,
\* returns an error value: it does not panic and returns no plan.
MalformedPlanIsAnError ==
    (plan.pc = "done" /\ PlanMalformed(plan.node)) => plan.result.tag = "Err"

(***************************************************************************)
(* The same batch under other field names.                                 *)
(***************************************************************************)
RenameName(name) ==
    CASE name = "a" -> "b"
      [] name = "b" -> "a"
      [] OTHER -> "x"

RECURSIVE RenameType(_)
RenameField(field) ==
    Field(RenameName(field.name), RenameType(field.type), field.nullable)

RenameType(data_type) ==
    DataTypeOf(data_type.id, data_type.tz,
               [i \in DOMAIN data_type.fields |-> RenameField(data_type.fields[i])])

RECURSIVE RenameArray(_)
RenameArray(array) ==
    [array EXCEPT !.type = RenameType(array.type),
                  !.children = [i \in DOMAIN array.children |->
                                   RenameArray(array.children[i])]]

RenameBatch(batch) ==
    RecordBatchOf([c \in DOMAIN batch.fields |-> RenameField(batch.fields[c])],
                  [c \in DOMAIN batch.columns |-> RenameArray(batch.columns[c])],
                  batch.num_rows)

\* C13: the bytes write_batch emits for a batch are those it emits for the
\* batch with the same types, nullability, values and nulls under other
\* column names and other names of nested list, map and struct fields.
EncodingIgnoresFieldNames ==
    codec.pc = "written" =>
        LET renamed == write_batch(RenameBatch(codec.batch), codec.compress, TRUE)
        IN  renamed.ok /\ renamed.sink = codec.sink

\* a batch with a struct, list or map column, whose type holds field names,
\* has been written
WroteNestedFieldNames ==
    /\ codec.pc = "written"
    /\ \E c \in DOMAIN codec.batch.columns :
          /\ codec.batch.columns[c].type.fields # <<>>
          /\ RenameType(codec.batch.columns[c].type) # codec.batch.columns[c].type

(***************************************************************************)
(* SparkUDFWrapperExpr::evaluate (spark_udf_wrapper.rs).  The parameters   *)
(* of row i are the number i; the external function maps the parameters x  *)
(* to UdfResult(x), or fails for a whole call.  A worker is a thread       *)
(* spawned for one row range; it runs invoke_udf on its own, whatever the  *)
(* position of evaluate.                                                   *)
(***************************************************************************)
UdfResult(x) == x + 10

UdfOk(v)  == [tag |-> "Ok", v |-> v]
UdfErr    == [tag |-> "Err", v |-> <<>>]
UdfPanic  == [tag |-> "Panic", v |-> <<>>]
UdfNoResult == [tag |-> "none", v |-> <<>>]

\* invoke_udf that answers a failed external call with a column of zeros
invoke_udf_padded(params_batch, ok) ==
    UdfOk([i \in DOMAIN params_batch |->
              IF ok THEN UdfResult(params_batch[i]) ELSE 0])

\* invoke_udf on params_batch: the external results of its rows
invoke_udf(params_batch, ok) ==
    IF ok THEN UdfOk([i \in DOMAIN params_batch |-> UdfResult(params_batch[i])])
    ELSE UdfErr

\* let sub_batch_size = num_rows / self.num_threads + 1 (as a ceiling)
sub_batch_size_ceil(num_rows, num_threads) ==
    (num_rows + num_threads - 1) \div num_threads

\* let sub_batch_size = num_rows / self.num_threads (the quotient alone)
sub_batch_size_quotient(num_rows, num_threads) == num_rows \div num_threads

\* let sub_batch_size = num_rows / self.num_threads + 1
sub_batch_size(num_rows, num_threads) == (num_rows \div num_threads) + 1

\* sub_batch_size.min(num_rows.saturating_sub(beg))
SubBatchLen(size, num_rows, beg) ==
    Min(size, IF num_rows >= beg THEN num_rows - beg ELSE 0)

\* params_batch.slice(beg, len)
SliceRows(params_batch, beg, len) == SubSeq(params_batch, beg + 1, beg + len)

\* arrow::compute::concat in reverse order
concat_reversed(arrays) ==
    IF arrays = <<>> THEN UdfErr
    ELSE UdfOk(Concat([i \in DOMAIN arrays |-> arrays[Len(arrays) + 1 - i]]))

\* arrow::compute::concat: an error on no array
concat(arrays) ==
    IF arrays = <<>> THEN UdfErr ELSE UdfOk(Concat(arrays))

\* is_task_running() taken as true
is_task_running_always(running) == TRUE

\* is_task_running(): whether the owning task is running
is_task_running(running) == running

UdfIdle ==
    [pc |-> "idle", num_rows |-> 0, num_threads |-> 1, running |-> TRUE,
     params |-> <<>>, evaluated |-> FALSE, workers |-> <<>>, joined |-> 0,
     finished |-> <<>>, calls |-> 0, result |-> UdfNoResult]

InitUdf ==
    /\ ev = TryNew(<<>>, <<>>, <<>>)
    /\ cache = <<>>
    /\ evals = <<>>
    /\ call = IdleCall
    /\ codec = CodecOff
    /\ hash = HashOff
    /\ plan = PlanOff
    /\ udf = UdfIdle
    /\ conc = ConcOff

\* evaluate(&self, batch) is called
UdfEvaluate ==
    /\ udf.pc = "idle"
    /\ \E num_rows \in 0 .. MaxUdfRows, num_threads \in 0 .. MaxThreads,
          running \in BOOLEAN :
          udf' = [UdfIdle EXCEPT !.pc = "entered", !.num_rows = num_rows,
                                 !.num_threads = num_threads,
                                 !.running = running]
    /\ UNCHANGED <<ev, cache, evals, call, codec, hash, plan, conc>>

UdfReturnWith(result) == [udf EXCEPT !.pc = "returned", !.result = result]

\* if !is_task_running() { return Err }; the parameters are evaluated
UdfEvaluateParams ==
    /\ udf.pc = "entered"
    /\ \/ /\ ~is_task_running(udf.running)
          /\ udf' = UdfReturnWith(UdfErr)
       \/ /\ is_task_running(udf.running)
          /\ \E params_ok \in BOOLEAN :
                udf' = IF params_ok
                       THEN [udf EXCEPT !.pc = "params", !.evaluated = TRUE,
                                        !.params = [i \in 1 .. udf.num_rows |-> i]]
                       ELSE [UdfReturnWith(UdfErr) EXCEPT !.evaluated = TRUE]
    /\ UNCHANGED <<ev, cache, evals, call, codec, hash, plan, conc>>

\* if self.num_threads <= 1: invoke_udf(self.jcontext(0)?, params_batch, ..)
UdfInvokeWithoutThreads ==
    /\ udf.pc = "params"
    /\ udf.num_threads <= 1
    /\ \E jcontext_ok \in BOOLEAN, ok \in BOOLEAN :
          udf' = IF udf.num_threads = 0 THEN UdfReturnWith(UdfPanic)
                 ELSE IF ~jcontext_ok THEN UdfReturnWith(UdfErr)
                 ELSE [UdfReturnWith(invoke_udf(udf.params, ok))
                          EXCEPT !.calls = udf.calls + 1]
    /\ UNCHANGED <<ev, cache, evals, call, codec, hash, plan, conc>>

\* a spawned thread: its rows and the index of the jcontext it was given
Worker(beg, len, thread_id) ==
    [beg |-> beg, len |-> len, jcontext |-> thread_id, state |-> "running",
     ok |-> TRUE, out |-> UdfNoResult, calls |-> 0]

\* one step of (0..num_rows).step_by(sub_batch_size).enumerate().map(..):
\* the context of the thread, then std::thread::spawn
UdfSpawn ==
    /\ udf.pc = "params"
    /\ udf.num_threads > 1
    /\ LET size == sub_batch_size(udf.num_rows, udf.num_threads)
           thread_id == Len(udf.workers)
           beg == thread_id * size
       IN  IF beg >= udf.num_rows
           THEN udf' = [udf EXCEPT !.pc = "join"]
           ELSE \E jcontext_ok \in BOOLEAN :
                   udf' = IF thread_id >= udf.num_threads THEN UdfReturnWith(UdfPanic)
                          ELSE IF ~jcontext_ok THEN UdfReturnWith(UdfErr)
                          ELSE [udf EXCEPT !.workers = Append(udf.workers,
                                   Worker(beg, SubBatchLen(size, udf.num_rows, beg),
                                          thread_id))]
    /\ UNCHANGED <<ev, cache, evals, call, codec, hash, plan, conc>>

\* the body of a spawned thread: invoke_udf(jcontext, params_batch, import_schema)
WorkerRun ==
    /\ udf.pc # "idle"
    /\ \E k \in DOMAIN udf.workers, ok \in BOOLEAN :
          /\ udf.workers[k].state = "running"
          /\ udf' = [udf EXCEPT
                !.workers[k].state = "finished",
                !.workers[k].ok = ok,
                !.finished = Append(udf.finished, k),
                !.workers[k].calls = udf.workers[k].calls + 1,
                !.workers[k].out =
                    invoke_udf(SliceRows(udf.params, udf.workers[k].beg,
                                         udf.workers[k].len), ok),
                !.calls = udf.calls + 1]
    /\ UNCHANGED <<ev, cache, evals, call, codec, hash, plan, conc>>

\* futs.into_iter().map(|fut| fut.join().unwrap()).collect::<Result<Vec<_>>>()?
\* then arrow::compute::concat
UdfJoin ==
    /\ udf.pc = "join"
    /\ IF udf.joined = Len(udf.workers)
       THEN udf' = UdfReturnWith(
                      concat([k \in DOMAIN udf.workers |-> udf.workers[k].out.v]))
       ELSE LET fut == udf.workers[udf.joined + 1]
            IN  /\ fut.state = "finished"
                /\ udf' = IF fut.out.tag = "Ok"
                          THEN [udf EXCEPT !.joined = udf.joined + 1]
                          ELSE UdfReturnWith(UdfErr)
    /\ UNCHANGED <<ev, cache, evals, call, codec, hash, plan, conc>>

\* the caller has the result; the threads still running run on
UdfReturn ==
    /\ udf.pc = "returned"
    /\ udf.result.tag # "Panic"
    /\ \A k \in DOMAIN udf.workers : udf.workers[k].state = "finished"
    /\ udf' = UdfIdle
    /\ UNCHANGED <<ev, cache, evals, call, codec, hash, plan, conc>>

NextUdf ==
    \/ UdfEvaluate
    \/ UdfEvaluateParams
    \/ UdfInvokeWithoutThreads
    \/ UdfSpawn
    \/ WorkerRun
    \/ UdfJoin
    \/ UdfReturn

SpecUdf == InitUdf /\ [][NextUdf]_vars

(***************************************************************************)
(* Properties of the evaluation of an external function.                   *)
(***************************************************************************)
\* the contiguous ranges of size rows, the last possibly shorter, that
\* cover num_rows rows
RangesOf(num_rows, size) ==
    [k \in 1 .. (IF num_rows = 0 THEN 0 ELSE (num_rows + size - 1) \div size) |->
        [beg |-> (k - 1) * size, len |-> Min(size, num_rows - (k - 1) * size)]]

\* the ranges of the workers spawned, in spawning order
WorkerRanges ==
    [k \in DOMAIN udf.workers |->
        [beg |-> udf.workers[k].beg, len |-> udf.workers[k].len]]

\* every range has been given its worker
FannedOut == udf.pc = "join" /\ udf.num_threads > 1

\* C14 as stated: with num_threads > 1 the workers' ranges are the
\* contiguous ranges of ceil(rows / num_threads) rows, one worker a range.
RangesOfCeilingSize ==
    FannedOut =>
        WorkerRanges = RangesOf(udf.num_rows,
                                (udf.num_rows + udf.num_threads - 1)
                                    \div udf.num_threads)

\* C14 as amended: with num_threads > 1 the workers' ranges are the
\* contiguous ranges of floor(rows / num_threads) + 1 rows, the last
\* possibly shorter, one worker a range.
RangesOfQuotientPlusOne ==
    FannedOut =>
        WorkerRanges = RangesOf(udf.num_rows,
                                (udf.num_rows \div udf.num_threads) + 1)

\* a batch has been split into three ranges, the last shorter than the first
SplitIntoUnevenRanges ==
    /\ FannedOut
    /\ Len(udf.workers) = 3
    /\ udf.workers[3].len < udf.workers[1].len

\* C15: when evaluate has returned, with a result or with an error, no
\* worker it spawned is still running.
ReturnsAfterAllWorkers ==
    udf.pc = "returned" =>
        \A k \in DOMAIN udf.workers : udf.workers[k].state = "finished"

\* C16: a fanned-out evaluation that succeeds returns one element a row,
\* element i being the external result of row i, whatever the order in
\* which the workers finished.
FanOutResultInRowOrder ==
    (udf.pc = "returned" /\ udf.num_threads > 1 /\ udf.result.tag = "Ok") =>
        /\ Len(udf.result.v) = udf.num_rows
        /\ \A i \in 1 .. udf.num_rows : udf.result.v[i] = UdfResult(i)

\* an evaluation over several ranges succeeded though a later range
\* finished before the first
SucceededOutOfOrder ==
    /\ udf.pc = "returned"
    /\ udf.result.tag = "Ok"
    /\ Len(udf.workers) >= 2
    /\ udf.finished[1] # 1

\* C17: if the external call failed for the range of some worker, the
\* evaluation returns an error and no column, and no worker has called the
\* external function a second time.
RangeFailureFailsTheCall ==
    /\ (udf.pc = "returned" /\ udf.num_threads > 1
          /\ \E k \in DOMAIN udf.workers :
                udf.workers[k].state = "finished" /\ ~udf.workers[k].ok)
          => (udf.result.tag = "Err" /\ udf.result.v = <<>>)
    /\ \A k \in DOMAIN udf.workers : udf.workers[k].calls <= 1

\* an evaluation returned after its last range failed, the others having
\* succeeded
LastRangeFailed ==
    /\ udf.pc = "returned"
    /\ Len(udf.workers) >= 2
    /\ \A k \in DOMAIN udf.workers : udf.workers[k].state = "finished"
    /\ \A k \in 1 .. (Len(udf.workers) - 1) : udf.workers[k].ok
    /\ ~udf.workers[Len(udf.workers)].ok

\* C18: an evaluation started when the owning task is not running returns
\* an error without having evaluated a parameter, called the external
\* function or spawned a worker.
CancelledBeforeAnyWork ==
    (udf.pc = "returned" /\ ~udf.running) =>
        /\ udf.result.tag = "Err"
        /\ ~udf.evaluated
        /\ udf.calls = 0
        /\ udf.workers = <<>>

\* an evaluation that would have fanned out returned for a task not running
CancelledFanOut ==
    /\ udf.pc = "returned"
    /\ ~udf.running
    /\ udf.num_threads > 1
    /\ udf.num_rows > 1

(***************************************************************************)
(* Properties of the cache within one call.                                *)
(***************************************************************************)
RootIds(exprs) ==
    {exprs[k][2] : k \in {j \in DOMAIN exprs : Kind(exprs[j]) = "cached"}}

\* C20: in a call, from its entry to its return, the underlying expression
\* of a cache id has been evaluated at most once, in the filter predicates
\* and the projection expressions together.
EachIdEvaluatedAtMostOnce ==
    \A i \in DOMAIN evals : evals[i] <= 1

\* a filter_project call returned rows, a cache id being the whole of one of
\* its filter predicates and of one of its projection expressions, and its
\* underlying expression was evaluated once
SharedAcrossFilterAndProjection ==
    /\ Returned("filter_project") /\ call.res.tag = "ok"
    /\ call.res.batch.n > 0
    /\ \E id \in RootIds([k \in DOMAIN ev.transformed_pruned_filter_exprs |->
                                ev.transformed_pruned_filter_exprs[k].expr])
                    \cap RootIds(ev.transformed_projection_exprs) :
          evals[id + 1] = 1

(***************************************************************************)
(* Two callers of one evaluator.  filter and filter_project take &self and *)
(* the cache is an Arc<Mutex<..>>, so two threads can be inside Cache::with *)
(* of the same evaluator at once.  The slots (cache) are shared; each      *)
(* caller has its own batch, selection state and output columns.  A step   *)
(* of a caller is one predicate or one projection expression, as in Spec:  *)
(* the mutex is released between any two steps (and more often), so every  *)
(* interleaving of steps is an interleaving of the code.  conc.owner says, *)
(* for each slot, which caller's Cache::get filled it (0: empty).          *)
(***************************************************************************)
Callers == {1, 2}

Other(t) == 3 - t

IdleCaller ==
    [pc |-> "idle", kind |-> "none", batch |-> NewEmpty(Schema),
     k |-> 1, stat |-> AllRetained, filtered |-> NewEmpty(Schema), j |-> 1,
     cols |-> <<>>, res |-> NoRes,
     overlapped |-> FALSE, read_foreign |-> FALSE, lost_slot |-> FALSE]

\* the evaluators and batches of the two callers
ConcForests(X) == {Forest(<<X>>, <<X>>), Forest(<<X, Not(X)>>, <<X>>)}

ConcBatches ==
    {Batch(Schema, <<c0, c1>>, 2) :
        c0 \in {<<"t", "t">>, <<"t", "f">>}, c1 \in {<<"t", "t">>, <<"f", "t">>}}

InitConc ==
    /\ \E X \in SharedExprs :
         \E forest \in ConcForests(X) :
            \E ids \in IdAssignments(Dups(forest.f \o forest.p)) :
               ev = TryNew(forest.f, forest.p, ids)
    /\ cache = EmptySlots(ev.cache_len)
    /\ evals = ZeroEvals(ev.cache_len)
    /\ call = IdleCall
    /\ codec = CodecOff
    /\ hash = HashOff
    /\ plan = PlanOff
    /\ udf = UdfOff
    /\ conc = [pc |-> "on", callers |-> <<IdleCaller, IdleCaller>>,
               owner |-> ZeroEvals(ev.cache_len)]

\* inside Cache::with, before its second reset has run
InCall(c) == c.pc \in {"filter", "project", "exit"}

\* the cache ids whose slot the evaluation of e reads for certain
RECURSIVE SureGets(_)
SureGets(e) ==
    CASE Kind(e) = "cached" -> {e[2]}
      [] Kind(e) \in {"col", "lit", "noop"} -> {}
      [] IsShortCircuit(e) -> SureGets(Children(e)[1])
      [] OTHER -> UNION {SureGets(Children(e)[i]) : i \in DOMAIN Children(e)}

\* caller t reads, evaluating e, a slot another caller's get has filled
ReadsForeign(t, e) ==
    \E id \in SureGets(e) :
        cache[id + 1] # None /\ conc.owner[id + 1] # t

\* the owners after caller t has turned the slots into values
OwnerAfter(t, values) ==
    [i \in DOMAIN values |->
        IF values[i] = None THEN 0
        ELSE IF cache[i] = None THEN t ELSE conc.owner[i]]

\* a reset by caller t: the other caller, if inside its call, loses the
\* slots it has filled
AfterReset(t, values, mine) ==
    LET u == Other(t)
        c == conc.callers
        lost == /\ InCall(c[u])
                /\ \E i \in DOMAIN cache :
                      conc.owner[i] = u /\ values[i] = None
    IN  [conc EXCEPT !.owner = OwnerAfter(t, values),
                     !.callers = [c EXCEPT ![t] = mine,
                                           ![u].lost_slot = @ \/ lost]]

\* filter / filter_project: Cache::with resets, then runs the body
ConcEnter(t, kind, b) ==
    /\ conc.pc = "on"
    /\ conc.callers[t].pc = "idle"
    /\ LET u == Other(t)
           overlap == InCall(conc.callers[u])
           mine == [IdleCaller EXCEPT !.pc = "filter", !.kind = kind,
                                      !.batch = b, !.overlapped = overlap]
           after == AfterReset(t, CacheWithEnter(cache), mine)
       IN  /\ cache' = CacheWithEnter(cache)
           /\ conc' = [after EXCEPT !.callers[u].overlapped = @ \/ overlap]
    /\ UNCHANGED <<ev, evals, call, codec, hash, plan, udf>>

ConcCallFilter == \E t \in Callers, b \in ConcBatches : ConcEnter(t, "filter", b)

ConcCallFilterProject ==
    \E t \in Callers, b \in ConcBatches : ConcEnter(t, "filter_project", b)

ConcResultSchema(c) ==
    IF c.kind = "filter" THEN c.batch.schema
    ELSE OutputSchema(Len(ev.transformed_projection_exprs))

\* one iteration of the loop of filter_impl, by caller t
ConcFilterStep(t) ==
    /\ conc.pc = "on"
    /\ conc.callers[t].pc = "filter"
    /\ conc.callers[t].k <= Len(ev.transformed_pruned_filter_exprs)
    /\ LET c == conc.callers[t]
           it == FilterIter(ev.transformed_pruned_filter_exprs, c.batch, c.k,
                            c.stat, [values |-> cache,
                                     evals |-> ZeroEvals(ev.cache_len)], FALSE)
           seen == [c EXCEPT !.stat = it.stat,
                             !.read_foreign = @ \/ ReadsForeign(t,
                                 ev.transformed_pruned_filter_exprs[c.k].expr)]
       IN  /\ cache' = it.m.values
           /\ conc' = [conc EXCEPT
                 !.owner = OwnerAfter(t, it.m.values),
                 !.callers[t] =
                     CASE it.out = "err" ->
                             [seen EXCEPT !.pc = "exit", !.res = ErrRes]
                       [] it.out = "empty" ->
                             [seen EXCEPT !.pc = "exit",
                                  !.res = OkRes(NewEmpty(ConcResultSchema(c)))]
                       [] OTHER -> [seen EXCEPT !.k = @ + 1]]
    /\ UNCHANGED <<ev, evals, call, codec, hash, plan, udf>>

\* the end of filter_impl and, for filter_project, the empty check
ConcFilterDone(t) ==
    /\ conc.pc = "on"
    /\ conc.callers[t].pc = "filter"
    /\ conc.callers[t].k > Len(ev.transformed_pruned_filter_exprs)
    /\ LET c == conc.callers[t]
           filtered_batch == Materialize(c.batch, c.stat)
       IN  conc' = [conc EXCEPT !.callers[t] =
                       IF c.kind = "filter"
                       THEN [c EXCEPT !.pc = "exit",
                                      !.res = OkRes(filtered_batch)]
                       ELSE IF filtered_batch.n = 0
                       THEN [c EXCEPT !.pc = "exit",
                                  !.res = OkRes(NewEmpty(ConcResultSchema(c)))]
                       ELSE [c EXCEPT !.pc = "project",
                                      !.filtered = filtered_batch]]
    /\ UNCHANGED <<ev, cache, evals, call, codec, hash, plan, udf>>

\* one projection expression of filter_project_impl, by caller t
ConcProjectStep(t) ==
    /\ conc.pc = "on"
    /\ conc.callers[t].pc = "project"
    /\ conc.callers[t].j <= Len(ev.transformed_projection_exprs)
    /\ LET c == conc.callers[t]
           x == Evaluate(ev.transformed_projection_exprs[c.j], c.filtered,
                         [values |-> cache, evals |-> ZeroEvals(ev.cache_len)],
                         FALSE)
           seen == [c EXCEPT !.read_foreign = @ \/ ReadsForeign(t,
                                 ev.transformed_projection_exprs[c.j])]
       IN  /\ cache' = x.m.values
           /\ conc' = [conc EXCEPT
                 !.owner = OwnerAfter(t, x.m.values),
                 !.callers[t] =
                     IF ~ColumnOk(x, c.filtered.n)
                     THEN [seen EXCEPT !.pc = "exit", !.res = ErrRes]
                     ELSE [seen EXCEPT !.j = @ + 1,
                               !.cols = Append(@, IntoArray(x.r, c.filtered.n))]]
    /\ UNCHANGED <<ev, evals, call, codec, hash, plan, udf>>

\* RecordBatch::try_new_with_options(output_schema, output_cols, row count)
ConcProjectDone(t) ==
    /\ conc.pc = "on"
    /\ conc.callers[t].pc = "project"
    /\ conc.callers[t].j > Len(ev.transformed_projection_exprs)
    /\ LET c == conc.callers[t]
       IN  conc' = [conc EXCEPT !.callers[t] =
                       [c EXCEPT !.pc = "exit",
                                 !.res = OkRes(Batch(ConcResultSchema(c), c.cols,
                                                     c.filtered.n))]]
    /\ UNCHANGED <<ev, cache, evals, call, codec, hash, plan, udf>>

\* the end of Cache::with: reset, then hand the result to the caller
ConcReturn(t) ==
    /\ conc.pc = "on"
    /\ conc.callers[t].pc = "exit"
    /\ cache' = CacheWithExit(cache)
    /\ conc' = AfterReset(t, CacheWithExit(cache),
                          [conc.callers[t] EXCEPT !.pc = "done"])
    /\ UNCHANGED <<ev, evals, call, codec, hash, plan, udf>>

\* the caller takes its result and is ready for its next call
ConcConsume(t) ==
    /\ conc.pc = "on"
    /\ conc.callers[t].pc = "done"
    /\ conc' = [conc EXCEPT !.callers[t] = IdleCaller]
    /\ UNCHANGED <<ev, cache, evals, call, codec, hash, plan, udf>>

NextConc ==
    \/ ConcCallFilter
    \/ ConcCallFilterProject
    \/ \E t \in Callers : ConcFilterStep(t)
    \/ \E t \in Callers : ConcFilterDone(t)
    \/ \E t \in Callers : ConcProjectStep(t)
    \/ \E t \in Callers : ConcProjectDone(t)
    \/ \E t \in Callers : ConcReturn(t)
    \/ \E t \in Callers : ConcConsume(t)

SpecConc == InitConc /\ [][NextConc]_vars

(***************************************************************************)
(* Properties of the cache under two callers.                              *)
(***************************************************************************)
\* what the call of c returns when no other call runs beside it
AloneResult(c) ==
    IF c.kind = "filter"
    THEN FilterImplFrom(ev.transformed_pruned_filter_exprs, c.batch, 1,
                        AllRetained,
                        [values |-> EmptySlots(ev.cache_len),
                         evals |-> ZeroEvals(ev.cache_len)], FALSE).res
    ELSE FilterProjectImpl(ev.transformed_pruned_filter_exprs,
                           ev.transformed_projection_exprs, c.batch,
                           OutputSchema(Len(ev.projection_exprs)),
                           [values |-> EmptySlots(ev.cache_len),
                            evals |-> ZeroEvals(ev.cache_len)], FALSE)

\* C19, the sequential half: a call beside which no other call has run reads
\* no slot filled by another caller, loses no slot to another caller's reset,
\* finds in the cache only what it has filled itself, and returns what it
\* returns alone.  The concurrent half is the reachability of Interfered.
NoInterferenceWithoutOverlap ==
    \A t \in Callers :
        LET c == conc.callers[t]
        IN  ~c.overlapped =>
               /\ ~c.read_foreign
               /\ ~c.lost_slot
               /\ InCall(c) =>
                     \A i \in DOMAIN cache :
                        cache[i] # None => conc.owner[i] = t
               /\ c.pc = "done" => c.res = AloneResult(c)

\* of two calls running at once, one has read a slot filled from the batch
\* of the other and one has had a slot it filled cleared by the other's
\* reset, and a call has returned another batch than it returns alone
Interfered ==
    /\ \E t \in Callers : conc.callers[t].read_foreign
    /\ \E t \in Callers : conc.callers[t].lost_slot
    /\ \E t \in Callers :
          /\ conc.callers[t].pc = "done"
          /\ conc.callers[t].res.tag = "ok"
          /\ conc.callers[t].res # AloneResult(conc.callers[t])

(***************************************************************************)
(* Properties of the cached values during the filter loop.                 *)
(***************************************************************************)
\* an expression without its caching decorators
RECURSIVE Strip(_)
Strip(e) ==
    IF Kind(e) = "cached" THEN Strip(e[3])
    ELSE IF IsTrivialLeaf(e) THEN e
    ELSE WithNewChildren(e, [i \in DOMAIN Children(e) |-> Strip(Children(e)[i])])

\* the decorated nodes of the evaluator, each with the columns its batch is
\* projected onto
IdentityProj == [i \in DOMAIN Schema |-> i - 1]

CachedIn(e, proj) ==
    {[node |-> x, proj |-> proj] :
        x \in {y \in Range(Nodes(e)) : Kind(y) = "cached"}}

CachedOccurrences ==
    UNION {CachedIn(ev.transformed_pruned_filter_exprs[k].expr,
                    ev.transformed_pruned_filter_exprs[k].proj) :
              k \in DOMAIN ev.transformed_pruned_filter_exprs}
    \cup
    UNION {CachedIn(ev.transformed_projection_exprs[k], IdentityProj) :
              k \in DOMAIN ev.transformed_projection_exprs}

\* the (1-based) rows of the batch a mask selects, in order
SelectedRows(mask) == FilterFrom([i \in DOMAIN mask |-> i], mask, 1)

\* the values of the expression of occurrence o on the selected rows of b
AlignedValues(o, b, mask) ==
    [k \in DOMAIN SelectedRows(mask) |->
        RowEval(Strip(o.node),
                [c \in DOMAIN o.proj |->
                    b.cols[o.proj[c] + 1][SelectedRows(mask)[k]]])]

InBody == call.pc \in {"filter", "project"}

\* C21: in a call whose selection state is Some(mask), every array in the
\* cache has one element for each selected row of the batch, the k-th being
\* the value of the cached expression (an expression decorated with the id
\* of the slot) on the k-th selected row, whether it was computed before any
\* mask or under an earlier one.
CachedArraysFollowTheMask ==
    (InBody /\ call.stat[1] = "Some") =>
        \A id \in DOMAIN cache :
            cache[id][1] = "A" =>
                \E o \in CachedOccurrences :
                    /\ o.node[2] = id - 1
                    /\ cache[id][2]
                           = AlignedValues(o, call.batch, call.stat[2])

\* a second mask has followed a first one and the cache holds an array
NarrowedUnderSecondMask ==
    /\ InBody /\ call.stat[1] = "Some" /\ call.prev[1] = "Some"
    /\ call.stat # call.prev
    /\ CountTrue(call.prev[2]) < call.batch.n
    /\ \E i \in DOMAIN cache : cache[i][1] = "A"

(***************************************************************************)
(* Properties of the order of the predicates.                              *)
(***************************************************************************)
\* C22: the predicates are evaluated one after the other in their order,
\* and the one that makes the selection state AllFiltered is the last one
\* evaluated: the call returns the empty batch of its result schema and no
\* projection expression has been evaluated.
AllFilteredEndsTheCall ==
    /\ call.pc = "filter" => Len(call.preds) = call.k - 1
    /\ call.stat = AllFiltered =>
          /\ call.pc \in {"exit", "idle"}
          /\ Len(call.preds) = call.k
          /\ call.res = OkRes(NewEmpty(ResultSchema))
          /\ call.projected = 0

\* a filter_project call returned after a predicate that was not its last
\* filtered every row
EndedBeforeLastPredicate ==
    /\ Returned("filter_project")
    /\ call.stat = AllFiltered
    /\ Len(call.preds) >= 2
    /\ Len(call.preds) < Len(ev.transformed_pruned_filter_exprs)
    /\ ev.transformed_projection_exprs # <<>>

(***************************************************************************)
(* Properties of transform_to_cached_exprs.                                *)
(***************************************************************************)
\* the expressions the evaluator holds after try_new
TransformedExprs ==
    [k \in DOMAIN ev.transformed_pruned_filter_exprs |->
        ev.transformed_pruned_filter_exprs[k].expr]
    \o ev.transformed_projection_exprs

\* the node a decorator wraps, or the node itself
Undecorated(e) == IF Kind(e) = "cached" THEN e[3] ELSE e

HasDecorator(e) == \E y \in Range(Nodes(e)) : Kind(y) = "cached"

\* the children of the short-circuit nodes of e that run conditionally
ConditionalChildren(e) ==
    UNION {{Children(Undecorated(x))[i] :
               i \in 2 .. Len(Children(Undecorated(x)))} :
             x \in {y \in Range(Nodes(e)) : IsShortCircuit(Undecorated(y))}}

\* C23: in the transformed expressions no caching decorator occurs inside
\* a child, other than the first, of a CASE, a short-circuit AND or a
\* short-circuit OR node.
NoDecoratorInConditionalChild ==
    \A k \in DOMAIN TransformedExprs :
        \A c \in ConditionalChildren(TransformedExprs[k]) : ~HasDecorator(c)

\* an expression that is decorated elsewhere stands undecorated as a
\* conditional child, and a call has gone through it
DuplicateLeftUndecorated ==
    /\ call.pc = "idle" /\ call.kind # "none" /\ call.res.tag = "ok"
    /\ \E k \in DOMAIN TransformedExprs :
          \E c \in ConditionalChildren(TransformedExprs[k]) :
             \E j \in DOMAIN TransformedExprs :
                \E y \in Range(Nodes(TransformedExprs[j])) :
                   Kind(y) = "cached" /\ Strip(y) = Strip(c)

\* the original expressions, in the order of TransformedExprs
OriginalExprs == ev.filter_exprs \o ev.projection_exprs

ForestCounts == ExprCounts(OriginalExprs)

\* the original node e and the node t the transform has put in its place:
\* t is decorated exactly when e is no trivial leaf and occurs more often
\* than its parent, and so on below, the conditional children of a
\* short-circuit node being left as they were
RECURSIVE WrappedWhereReached(_, _, _)
WrappedWhereReached(e, t, parent_count) ==
    LET ch == Children(e)
        tch == Children(Undecorated(t))
    IN  /\ (Kind(t) = "cached")
              <=> (~IsTrivialLeaf(e) /\ CountOf(ForestCounts, e) > parent_count)
        /\ Len(tch) = Len(ch)
        /\ \A i \in DOMAIN ch :
              IF IsShortCircuit(e) /\ i > 1
              THEN ~HasDecorator(tch[i])
              ELSE WrappedWhereReached(ch[i], tch[i], CountOf(ForestCounts, e))

\* the same with the rule applied to every node that is no column
\* reference or literal, wherever it stands
RECURSIVE WrappedEverywhere(_, _, _)
WrappedEverywhere(e, t, parent_count) ==
    LET ch == Children(e)
        tch == Children(Undecorated(t))
    IN  /\ (Kind(t) = "cached")
              <=> (Kind(e) \notin {"col", "lit"}
                   /\ CountOf(ForestCounts, e) > parent_count)
        /\ Len(tch) = Len(ch)
        /\ \A i \in DOMAIN ch :
              WrappedEverywhere(ch[i], tch[i], CountOf(ForestCounts, e))

\* a pruned expression with its original column indices
RECURSIVE Unprune(_, _)
Unprune(e, proj) ==
    IF Kind(e) = "col" THEN Col(proj[e[2] + 1])
    ELSE IF IsTrivialLeaf(e) THEN e
    ELSE WithNewChildren(e, [i \in DOMAIN Children(e) |->
                                Unprune(Children(e)[i], proj)])

IdentityOf(o) == Unprune(Strip(o.node), o.proj)

\* one id for each decorated identity (that of the expression key), the ids
\* being 0 .. cache_len - 1
OneIdForEachIdentity ==
    /\ \A o1, o2 \in CachedOccurrences :
          (o1.node[2] = o2.node[2])
              <=> (KeyOf(IdentityOf(o1)) = KeyOf(IdentityOf(o2)))
    /\ {o.node[2] : o \in CachedOccurrences} = 0 .. ev.cache_len - 1

\* C24 as stated: a node is decorated if and only if it is no column
\* reference or literal and occurs more often in the forest than its parent
\* (a root: than 1), wherever it stands; each decorated identity has its
\* own id in 0 .. cache_len - 1.
DecoratedIffMoreThanParent ==
    /\ \A k \in DOMAIN OriginalExprs :
          WrappedEverywhere(OriginalExprs[k], TransformedExprs[k], 1)
    /\ OneIdForEachIdentity

\* C24 as amended: a node that is not inside a conditional child of a
\* short-circuit node is decorated if and only if it is no NoOp, column
\* reference or literal and occurs more often in the forest than its parent
\* (a root: than 1); inside a conditional child nothing is decorated; each
\* decorated identity has its own id in 0 .. cache_len - 1.
DecoratedIffMoreThanParentWhereReached ==
    /\ \A k \in DOMAIN OriginalExprs :
          WrappedWhereReached(OriginalExprs[k], TransformedExprs[k], 1)
    /\ OneIdForEachIdentity

\* an evaluator of two cache ids has served a filter_project call
TwoIdentitiesDecorated ==
    /\ ev.cache_len >= 2
    /\ Returned("filter_project") /\ call.res.tag = "ok"

(***************************************************************************)
(* Properties of prune_expr_cols.                                          *)
(***************************************************************************)
\* the column indices an expression refers to
ColumnsOf(e) == {x[2] : x \in {y \in Range(Nodes(e)) : Kind(y) = "col"}}

\* C25: the table of a pruned filter expression lists each column index the
\* expression refers to once; the rewritten expression refers to the indices
\* 0 .. k-1, index i standing for table[i]; and over the batch projected
\* onto the table it evaluates to what the original expression evaluates to
\* over the whole batch.
PrunedExprIsTheOriginalRenumbered ==
    \A k \in DOMAIN ev.filter_exprs :
        LET pruned == ev.transformed_pruned_filter_exprs[k]
            table == pruned.proj
        IN  /\ \A i, j \in DOMAIN table : table[i] = table[j] => i = j
            /\ Range(table) = ColumnsOf(ev.filter_exprs[k])
            /\ ColumnsOf(pruned.expr) = 0 .. Len(table) - 1
            /\ Unprune(Strip(pruned.expr), table) = ev.filter_exprs[k]
            /\ call.kind # "none" =>
                  Evaluate(Strip(pruned.expr), ProjectBatch(call.batch, table),
                           NoCache, call.fail).r
                    = Evaluate(ev.filter_exprs[k], call.batch, NoCache,
                               call.fail).r

\* a call has returned rows through a predicate whose first pruned column
\* is not the first column of the batch
FilteredThroughRenumberedColumn ==
    /\ call.pc = "idle" /\ call.kind # "none" /\ call.res.tag = "ok"
    /\ call.res.batch.n > 0
    /\ \E k \in DOMAIN ev.transformed_pruned_filter_exprs :
          /\ ev.transformed_pruned_filter_exprs[k].proj # <<>>
          /\ ev.transformed_pruned_filter_exprs[k].proj[1] # 0

(***************************************************************************)
(* Properties of bind.                                                     *)
(***************************************************************************)
\* r is e bound against schema: the same tree, a pre-bound Column as it
\* was, a named Column with the (0-based) place of the first field of its
\* name
RECURSIVE BoundAgainst(_, _, _)
BoundAgainst(e, r, schema) ==
    IF e[1] = "Column"
    THEN IF e[2] = BoundReferenceName
         THEN r = e
         ELSE /\ r[1] = "Column" /\ r[2] = e[2]
              /\ r[3] + 1 \in DOMAIN schema
              /\ schema[r[3] + 1] = e[2]
              /\ \A j \in 1 .. r[3] : schema[j] # e[2]
    ELSE /\ r[1] = e[1]
         /\ Len(r) = Len(e)
         /\ Len(ExprChildren(r)) = Len(ExprChildren(e))
         /\ \A i \in DOMAIN ExprChildren(e) :
               BoundAgainst(ExprChildren(e)[i], ExprChildren(r)[i], schema)

\* C26: the tree bind returns has the shape of the tree it was given; a
\* pre-bound Column keeps its index, a named Column has the index of the
\* first field of the schema with its name, whatever index it had, and the
\* other nodes are the same nodes over the bound children.
BindResolvesNamesToFirstField ==
    (plan.pc = "bound" /\ plan.result.tag = "Ok") =>
        BoundAgainst(plan.expr, plan.result.v, plan.schema)

\* a tree of a pre-bound Column and a named Column has been bound against
\* a schema with two fields of that name, the Column getting a new index
BoundAgainstRepeatedName ==
    /\ plan.pc = "bound" /\ plan.result.tag = "Ok"
    /\ plan.expr[1] = "BinaryExpr"
    /\ plan.expr[2][1] = "Column" /\ plan.expr[2][2] # BoundReferenceName
    /\ plan.expr[3][1] = "Column" /\ plan.expr[3][2] = BoundReferenceName
    /\ Cardinality({i \in DOMAIN plan.schema :
                       plan.schema[i] = plan.expr[2][2]}) = 2
    /\ plan.result.v[2][3] # plan.expr[2][3]

(***************************************************************************)
(* The nullability flags of the batch header.                              *)
(***************************************************************************)
\* the uncompressed bytes of the sink
WrittenPayload ==
    IF codec.compress THEN ZstdDecode(codec.sink).v ELSE codec.sink

\* the bytes between the data types and the first column of the sink
NullablesBytes ==
    LET input == WrittenPayload
        num_columns == read_len(input, 1)
        num_rows == read_len(input, num_columns.pos)
        data_types == ReadDataTypes(input, num_rows.pos, num_columns.v)
    IN  SubSeq(input, data_types.pos,
               Len(input) - Len(Concat([c \in DOMAIN codec.batch.columns |->
                                  write_array(codec.batch.columns[c])])))

\* bit n of a byte, bit 0 the least significant
BitOf(byte, n) == (byte \div Pow2(n)) % 2 = 1

HeaderWritten == codec.pc \in {"written", "read"}

\* the flags read_batch takes from the bytes: nullables[i] of column i
ReadNullables(bytes) == UnpackLsb0(bytes)

\* read_batch takes flag i for column i, and a batch it returns carries
\* flag i on field i
FlagsReadInWrittenOrder(bytes) ==
    /\ \A nullables \in {ReadNullables(bytes)} :
           \A i \in DOMAIN codec.batch.fields :
               nullables[i] = codec.batch.fields[i].nullable
    /\ codec.pc = "read" /\ codec.result.ok =>
           /\ Len(codec.result.batch.fields) = Len(codec.batch.fields)
           /\ \A i \in DOMAIN codec.batch.fields :
                  codec.result.batch.fields[i].nullable
                      = codec.batch.fields[i].nullable

\* C27 as stated: the nullability flags of the header occupy
\* ceil(columns / 8) bytes, column 0 in the most significant bit of the first
\* byte, and read_batch gives flag i to column i
NullablesPackedMsbFirst ==
    HeaderWritten =>
        \A bytes \in {NullablesBytes} :
            /\ Len(bytes) = (Len(codec.batch.fields) + 7) \div 8
            /\ \A i \in DOMAIN codec.batch.fields :
                   BitOf(bytes[((i - 1) \div 8) + 1], 7 - ((i - 1) % 8))
                       = codec.batch.fields[i].nullable
            /\ FlagsReadInWrittenOrder(bytes)

\* C27 as amended: the nullability flags of the header occupy
\* ceil(columns / 8) bytes, column 0 in the least significant bit of the
\* first byte and the unused bits of the last byte clear, and read_batch
\* gives flag i to column i
NullablesPackedLsbFirst ==
    HeaderWritten =>
        \A bytes \in {NullablesBytes} :
            /\ Len(bytes) = (Len(codec.batch.fields) + 7) \div 8
            /\ \A i \in 1 .. 8 * Len(bytes) :
                   BitOf(bytes[((i - 1) \div 8) + 1], (i - 1) % 8)
                       = (i <= Len(codec.batch.fields)
                          /\ codec.batch.fields[i].nullable)
            /\ FlagsReadInWrittenOrder(bytes)

\* nine columns of differing nullability were written and read back
NineFlagsReadBack ==
    /\ codec.pc = "read"
    /\ codec.result.ok
    /\ Len(codec.batch.fields) = 9
    /\ Len(NullablesBytes) = 2
    /\ codec.batch.fields[1].nullable
    /\ ~codec.batch.fields[2].nullable
    /\ codec.result.batch.fields[9].nullable


(***************************************************************************)
(* The entries a map row mixes into its hash.                              *)
(***************************************************************************)
\* the entries of row i of a map array: value_offsets[i] .. value_offsets[i+1]
RowEntries(array, i) ==
    [e \in 1 .. (array.offsets[i + 1] - array.offsets[i]) |->
        array.offsets[i] + e]

\* the values of the entries in the order key, value, key, value, ...
KeysAndValues(array, entries) ==
    [n \in 1 .. 2 * Len(entries) |->
        IF n % 2 = 1
        THEN [array |-> array.keys, at |-> entries[(n + 1) \div 2]]
        ELSE [array |-> array.values, at |-> entries[n \div 2]]]

\* the valid values among them mixed one after the other into the seed
MixedInOrder(items, seed) ==
    LET h[n \in 0 .. Len(items)] ==
            IF n = 0 THEN seed
            ELSE IF items[n].array.valid[items[n].at]
            THEN spark_compatible_murmur3_hash(
                     ValueBytes(items[n].array.type,
                                items[n].array.values[items[n].at]),
                     h[n - 1])
            ELSE h[n - 1]
    IN  h[Len(items)]

\* C28: a Map column mixes into row i's running seed the entries of row i,
\* entry by entry in entry order with the key before the value, and nothing
\* else, also where the first value offset of the array is not zero
MapRowMixesItsOwnEntries ==
    (ColumnHashed /\ LastColumn.type = "map") =>
        \A i \in DOMAIN hash.buffer :
            hash.buffer[i]
                = MixedInOrder(KeysAndValues(LastColumn,
                                             RowEntries(LastColumn, i)),
                               hash.before[i])

\* the same over the map arrays whose first value offset is zero
MapRowMixesItsOwnEntriesFromZero ==
    (ColumnHashed /\ LastColumn.type = "map" /\ LastColumn.offsets[1] = 0) =>
        \A i \in DOMAIN hash.buffer :
            hash.buffer[i]
                = MixedInOrder(KeysAndValues(LastColumn,
                                             RowEntries(LastColumn, i)),
                               hash.before[i])


(***************************************************************************)
(* The execution contexts of the workers.                                  *)
(***************************************************************************)
\* C29: for rows >= 1 and num_threads >= 2 a fanned-out evaluation spawns at
\* most num_threads workers, every index into the context vector is below
\* num_threads (the indexing never panics), and no two workers of the call
\* use the same context
WorkersUseTheirOwnContexts ==
    (udf.num_rows >= 1 /\ udf.num_threads >= 2) =>
        /\ Len(udf.workers) <= udf.num_threads
        /\ udf.result # UdfPanic
        /\ \A k \in DOMAIN udf.workers :
               /\ udf.workers[k].jcontext \in 0 .. udf.num_threads - 1
               /\ \A l \in DOMAIN udf.workers :
                      udf.workers[k].jcontext = udf.workers[l].jcontext
                          => k = l

\* every context of the vector was used by a worker of the call
EveryContextUsed ==
    /\ udf.pc = "returned"
    /\ udf.num_threads = MaxThreads
    /\ udf.num_rows >= 1
    /\ Len(udf.workers) = udf.num_threads
    /\ \A k \in DOMAIN udf.workers : udf.workers[k].state = "finished"


(***************************************************************************)
(* The identity of external calls in the transform.                        *)
(***************************************************************************)
IsExternalCall(e) == Kind(e) \in {"udf", "udf2"}

\* C30: two external calls share a cache id only if they have the same
\* serialized payload, return type and return nullability and the same
\* arguments in the same positions; calls whose argument lists are
\* permutations of each other are not merged.
ExternalCallsMergedOnlyInSamePositions ==
    \A o1, o2 \in CachedOccurrences :
        (/\ IsExternalCall(IdentityOf(o1))
         /\ IsExternalCall(IdentityOf(o2))
         /\ o1.node[2] = o2.node[2])
            => IdentityOf(o1) = IdentityOf(o2)

====
